---- MODULE Spec2Model ----
(***************************************************************************)
(* Dayflow: the recording-to-timeline pipeline.                            *)
(*                                                                         *)
(*   SpecAna  the batch scheduler (dayflow/analysis/analysis_manager.py)   *)
(*            with the video-mode response parser of gemini_service.py;    *)
(*            one unit of `now' is one minute.                             *)
(*   SpecRec  the capture loop (dayflow/core/recorder.py); one unit of     *)
(*            `now' is one second.                                         *)
(*                                                                         *)
(* Both specifications share the module's variables; each one keeps the    *)
(* variables of the other component at their initial values.               *)
(***************************************************************************)
EXTENDS Integers, Sequences, FiniteSets, TLC

VARIABLES
    now,            \* datetime.now() / time.time()
    \* ---- batch scheduler ----
    interval,       \* AnalysisManager.analysis_interval (minutes)
    is_running,     \* AnalysisManager.is_running
    next_fire,      \* next run time of the IntervalTrigger job, -1: no job
    dropped,        \* triggers skipped by max_instances=1
    starts,         \* calls of start() that started the scheduler
    runs,           \* per executing thread: position and locals of the job
    chunkRows,      \* RecordingChunk table
    disk,           \* files that exist (chunks, temp batches, timelapses)
    corrupt,        \* chunk files whose content is unreadable
    activities,     \* TimelineActivity table, in insertion order
    finished,       \* how the last periodic run / backfill window ended
    \* ---- capture loop ----
    cfg,            \* ScreenRecorder.chunk_duration, 1 / ScreenRecorder.fps
    is_recording,   \* ScreenRecorder.is_recording
    is_paused,      \* ScreenRecorder.is_paused
    recording_thread, \* ScreenRecorder.recording_thread (0: None)
    loops,          \* per thread: position and locals of _recording_loop
    ctl,            \* the caller of stop(): waiting in join() or not
    notified,       \* on_chunk_complete calls, in order
    overwrites,     \* chunk files written over an existing file
    lastCall,       \* the last start()/stop() call and what it changed
    lastStop,       \* what the last stop() that joined left behind
    calls,          \* calls of start(), stop(), pause(), resume() so far
    \* ---- storage cleanup, functions of their arguments only ----
    cleanup,        \* position and locals of cleanup_old_recordings
    flush,          \* the chunk whose file is written, callback not yet run
    call,           \* the last call of a function under study, its result
    \* ---- daily summaries ----
    daily_summaries, \* DailySummary table, in insertion order
    sum_runs,       \* per thread: position and locals of the summary call
    model_calls,    \* per date: generate_content calls made for its summary
    summary_mgr     \* DailySummaryManager: is_running, its job, its settings

anaVars == <<interval, is_running, next_fire, dropped, starts, runs, chunkRows, disk,
             corrupt, activities, finished>>

recVars == <<cfg, is_recording, is_paused, recording_thread, loops, ctl,
             notified, overwrites, lastCall, lastStop, calls>>

sumVars == <<daily_summaries, sum_runs, model_calls, summary_mgr>>

otherVars == <<cleanup, flush, call, sumVars>>

\* ---------------------------------------------------------------- bounds
MaxTime == 4
MaxElems == 1
MaxRows == 1
MaxStarts == 1
MaxDamaged == 1
MaxLoops == 2
MaxClock == 10
MaxSaveTime == 1
MaxCalls == 3

\* ------------------------------------------------------------- constants
MinutesPerDay == 1440

Intervals == {2}

NoPath == [dir |-> <<>>, stem |-> <<>>]

\* ------------------------------------------------- recorder: construction
SecondsPerDay == 86400
JoinTimeout == 5
PauseSleep == 1
ErrorSleep == 1

\* (chunk_duration, 1 / fps) of the recorders under study: the class default
\* rate of one frame in 5 s (fps = 0.2) with a chunk of one interval, and
\* one frame in 3 s with a chunk of two intervals
Configs == {[chunk_duration |-> 5, frame_interval |-> 5],
            [chunk_duration |-> 6, frame_interval |-> 3]}

LoopIds == 1..MaxLoops

NoLoop ==
    [pc |-> "none", frames_buffer |-> <<>>, chunk_start_time |-> 0,
     chunk_end_time |-> 0, frame_start |-> 0, wake |-> 0, paused |-> 0,
     captured |-> <<>>, handed |-> <<>>, aborted |-> <<>>]

NoCall == [op |-> "none", was |-> "Idle", noop |-> FALSE]
NoStop == "none"
NoJoin == [pc |-> "idle", deadline |-> 0, buf |-> <<>>]

DefaultRetention == 3

IdleCleanup(n) ==
    [pc |-> "idle", retention_days |-> n, cutoff |-> 0, todo |-> {},
     deleted |-> {}, unlinked |-> {}, failed |-> {}, before |-> {},
     beforeDisk |-> {}, result |-> "none"]

NoCleanup == IdleCleanup(DefaultRetention)

NoFlush == [pc |-> "idle"]

NoResult == [fn |-> "none"]

\* ScreenRecorder.__init__
RecConstructed ==
    /\ is_recording = FALSE
    /\ is_paused = FALSE
    /\ recording_thread = 0
    /\ loops = [th \in LoopIds |-> NoLoop]
    /\ ctl = NoJoin
    /\ notified = <<>>
    /\ overwrites = {}
    /\ lastCall = NoCall
    /\ lastStop = NoStop
    /\ calls = 0

\* StorageManager.__init__: no cleanup and no save is in progress
StoreConstructed ==
    /\ cleanup = NoCleanup
    /\ flush = NoFlush

\* ------------------------------------------ daily summaries: construction
SumThreads == {"job", "ui"}

Dates == {0, 1}

\* None in a nullable text column or argument, and in a nullable integer
\* column
Null == "null"

NoInt == -1

\* a time "HH:MM" is the sequence of its fields between the colons, -1 for
\* a field that is no number; a job is the <<hour, minute>> of its trigger
NoJob == <<>>

NoStats ==
    [total_minutes |-> 0, productive_minutes |-> 0, activity_count |-> 0,
     top_category |-> Null]

NoPending == [kind |-> "none"]

\* asked: generate_content calls of the call; calls: calls begun on the thread;
\* session: the call holds a session of get_session_direct() not yet closed
IdleSum ==
    [pc |-> "idle", op |-> "none", date |-> 0, user_notes |-> Null,
     force_regenerate |-> FALSE, existing |-> 0, pending |-> NoPending,
     asked |-> 0, calls |-> 0, ret |-> "none", session |-> FALSE]

\* getattr(config.analysis, "daily_summary_time", "22:00")
DefaultSummaryTime == <<22, 0>>

\* DailySummaryManager.__init__ and an empty daily_summaries table
SumConstructed ==
    /\ daily_summaries = <<>>
    /\ sum_runs = [th \in SumThreads |-> IdleSum]
    /\ model_calls = [d \in Dates |-> 0]
    /\ summary_mgr = [is_running |-> FALSE, job |-> NoJob,
                      llm_service |-> TRUE, auto_daily_summary |-> TRUE,
                      daily_summary_time |-> DefaultSummaryTime]

\* datetime.strftime("%Y%m%d_%H%M%S"): the date part and the time-of-day part
Strftime(t) == <<t \div MinutesPerDay, t % MinutesPerDay>>

\* datetime.strptime(s, "%Y%m%d_%H%M%S"); -1 stands for ValueError
Strptime(s) ==
    IF Len(s) = 2 /\ s[2] \in 0..(MinutesPerDay - 1) /\ s[1] >= 0
    THEN s[1] * MinutesPerDay + s[2]
    ELSE -1

\* recorder: filename = f"chunk_{timestamp_str}.mp4"
ChunkPath(t) == [dir |-> <<"recordings">>, stem |-> <<"chunk">> \o Strftime(t)]

\* _merge_batch: base_dir / "temp" / f"batch_{timestamp}.mp4"
BatchPath(t) == [dir |-> <<"temp">>, stem |-> <<"batch">> \o Strftime(t)]

\* _process_activity: timelapse_dir(date) / f"activity_{...}.mp4"
TimelapsePath(t) ==
    [dir |-> <<"timelapses", t \div MinutesPerDay>>,
     stem |-> <<"activity">> \o Strftime(t)]

\* ------------------------------------------------ StorageManager queries
\* get_chunks_in_range: start_time >= a, end_time <= b, ordered by start_time
RECURSIVE SortByStart(_)
SortByStart(S) ==
    IF S = {} THEN <<>>
    ELSE LET c == CHOOSE x \in S : \A y \in S : x.start_time <= y.start_time
         IN  <<c>> \o SortByStart(S \ {c})

get_chunks_in_range(a, b) ==
    SortByStart({c \in chunkRows : c.start_time >= a /\ c.end_time <= b})

SeqToSet(s) == {s[i] : i \in 1..Len(s)}

\* ----------------------------------------------- GeminiService (video mode)
\* "chunk_" in filename: only the leading word of a stem is alphabetic
HasChunkPrefix(stem) == Len(stem) > 1 /\ stem[1] = "chunk"

\* _parse_video_response: base_time = now unless the stem is chunk_<timestamp>
BaseTime(video_path, t) ==
    IF HasChunkPrefix(video_path.stem) /\ Strptime(Tail(video_path.stem)) # -1
    THEN Strptime(Tail(video_path.stem))
    ELSE t

\* one element of the response array -> ActivitySegment
Segment(el, base) ==
    [start_time |-> base + el.start_minutes,
     end_time   |-> base + el.end_minutes,
     start_minutes |-> el.start_minutes,
     end_minutes   |-> el.end_minutes]

_parse_video_response(elems, video_path, t) ==
    LET base == BaseTime(video_path, t)
    IN  [i \in 1..Len(elems) |-> Segment(elems[i], base)]

\* analyze_video: [] when the file is missing or the backend raises
analyze_video(video_path, backendOk, elems, t) ==
    IF video_path \notin disk THEN <<>>
    ELSE IF ~backendOk THEN <<>>
    ELSE _parse_video_response(elems, video_path, t)

\* what the model may answer: offsets in either order
Element == {[start_minutes |-> 0, end_minutes |-> 1],
            [start_minutes |-> 1, end_minutes |-> 0]}
Responses == UNION {[1..n -> Element] : n \in 0..MaxElems}

\* ------------------------------------------------------- AnalysisManager
Threads == {"sched", "direct", "backfill"}
JobThreads == {"sched", "direct"}

NoMerge == [nsel |-> 0, nexist |-> 0, bad |-> FALSE, ff |-> "none"]

\* no file is uploaded to the backend
NoUpload == [state |-> "none", fate |-> "none"]

IdleRun ==
    [pc |-> "idle", start_time |-> 0, end_time |-> 0, chunks |-> <<>>,
     merged |-> NoPath, acts |-> <<>>, src |-> NoMerge,
     day_chunks |-> <<>>, day_end |-> 0, cur |-> 0, created |-> 0,
     upload |-> NoUpload]

\* _merge_batch: the files that exist are merged; None when there is none or
\* when merge_chunks fails. ff is how ffmpeg ended: it fails on an unreadable
\* input, and may fail on any input (disk full); a failed merge leaves no
\* output.
ExistingPaths(chunks) ==
    {chunks[i].file_path : i \in 1..Len(chunks)} \cap disk

FfOutcomes(chunks) ==
    IF ExistingPaths(chunks) \cap corrupt # {} THEN {"fail"}
    ELSE {"ok", "fail"}

\* _merge_batch that returns the output path whatever merge_chunks answered
MergeResultIgnoringFailure(chunks, start_time, ff) ==
    IF ExistingPaths(chunks) = {} THEN NoPath
    ELSE BatchPath(start_time)

MergeResult(chunks, start_time, ff) ==
    IF ExistingPaths(chunks) = {} THEN NoPath
    ELSE IF ff = "ok" THEN BatchPath(start_time)
    ELSE NoPath

MergeOutput(chunks, start_time, ff) ==
    IF ExistingPaths(chunks) # {} /\ ff = "ok"
    THEN {BatchPath(start_time)}
    ELSE {}

MergeInfo(chunks, ff) ==
    [nsel |-> Len(chunks), nexist |-> Cardinality(ExistingPaths(chunks)),
     bad |-> ExistingPaths(chunks) \cap corrupt # {},
     ff |-> IF ExistingPaths(chunks) = {} THEN "none" ELSE ff]

NoFinish == [kind |-> "none", outcome |-> "none", created |-> FALSE, exists |-> FALSE]

\* the end of a periodic run or of a backfill window
Finish(th, kind, outcome, path) ==
    finished' = [kind |-> kind, outcome |-> outcome, created |-> path # NoPath,
                 exists |-> path \in disk']

\* _process_activity: the timelapse file (when create_timelapse succeeds) and
\* the TimelineActivity row (when the commit succeeds)
TimelapseMade(seg, source_video, tlOk) == source_video \in disk /\ tlOk

ActivityRow(seg, source_video, tlOk, r, kind) ==
    [start_time |-> seg.start_time, end_time |-> seg.end_time,
     timelapse_path |-> IF TimelapseMade(seg, source_video, tlOk)
                        THEN TimelapsePath(seg.start_time) ELSE NoPath,
     start_minutes |-> seg.start_minutes, end_minutes |-> seg.end_minutes,
     window |-> r.start_time, kind |-> kind, src |-> r.src]

ProcessActivityNeedingTimelapse(th, kind, tlOk, dbOk) ==
    LET r == runs[th]
        seg == Head(r.acts)
    IN  /\ Len(activities) < MaxRows
        /\ disk' = IF TimelapseMade(seg, r.merged, tlOk)
                   THEN disk \cup {TimelapsePath(seg.start_time)} ELSE disk
        /\ activities' = IF dbOk /\ TimelapseMade(seg, r.merged, tlOk)
                         THEN Append(activities,
                                     ActivityRow(seg, r.merged, tlOk, r, kind))
                         ELSE activities

ProcessActivity(th, kind, tlOk, dbOk) ==
    LET r == runs[th]
        seg == Head(r.acts)
    IN  /\ Len(activities) < MaxRows
        /\ disk' = IF TimelapseMade(seg, r.merged, tlOk)
                   THEN disk \cup {TimelapsePath(seg.start_time)} ELSE disk
        /\ activities' = IF dbOk
                         THEN Append(activities,
                                     ActivityRow(seg, r.merged, tlOk, r, kind))
                         ELSE activities

\* start(run_immediately)
Start(imm) ==
    /\ ~is_running
    /\ runs["direct"].pc = "idle"
    /\ is_running' = TRUE
    /\ next_fire' = now + interval
    /\ runs' = IF imm THEN [runs EXCEPT !["direct"].pc = "collect"] ELSE runs
    /\ starts < MaxStarts
    /\ starts' = starts + 1
    /\ UNCHANGED <<otherVars, recVars, now, interval, dropped, chunkRows, disk, corrupt,
                   activities, finished>>

\* stop(): scheduler.shutdown(wait=True) returns once the running job is over
Stop ==
    /\ is_running
    /\ runs["sched"].pc = "idle"
    /\ is_running' = FALSE
    /\ next_fire' = -1
    /\ UNCHANGED <<otherVars, recVars, now, interval, dropped, starts, runs, chunkRows, disk, corrupt,
                   activities, finished>>

\* the IntervalTrigger fires; max_instances=1 skips it while an instance runs
Trigger ==
    /\ is_running
    /\ now = next_fire
    /\ next_fire' = next_fire + interval
    /\ IF runs["sched"].pc # "idle"
       THEN /\ dropped' = dropped + 1
            /\ runs' = runs
       ELSE /\ dropped' = dropped
            /\ runs' = [runs EXCEPT !["sched"].pc = "collect"]
    /\ UNCHANGED <<otherVars, recVars, now, interval, is_running, starts, chunkRows, disk, corrupt,
                   activities, finished>>

\* _analysis_job, lines 98-106: the window and its chunks
JobCollect(th) ==
    /\ th \in JobThreads
    /\ runs[th].pc = "collect"
    /\ LET chunks == get_chunks_in_range(now - interval, now)
       IN  IF chunks = <<>>
           THEN /\ runs' = [runs EXCEPT ![th] = IdleRun]
                /\ disk' = disk
                /\ Finish(th, "periodic", "no_chunks", NoPath)
           ELSE /\ runs' = [runs EXCEPT ![th] =
                       [IdleRun EXCEPT !.pc = "merge",
                                       !.start_time = now - interval,
                                       !.end_time = now, !.chunks = chunks]]
                /\ UNCHANGED <<disk, finished>>
    /\ UNCHANGED <<otherVars, recVars, now, interval, is_running, next_fire, dropped, starts, chunkRows,
                   corrupt, activities>>

\* _analysis_job, lines 111-114
JobMerge(th) ==
    /\ th \in JobThreads
    /\ runs[th].pc = "merge"
    /\ \E ff \in FfOutcomes(runs[th].chunks) :
         LET r == runs[th]
             merged == MergeResult(r.chunks, r.start_time, ff)
             out == MergeOutput(r.chunks, r.start_time, ff)
         IN  /\ disk' = disk \cup out
             /\ IF merged = NoPath
                THEN /\ runs' = [runs EXCEPT ![th] = IdleRun]
                     /\ Finish(th, "periodic", "merge_failed",
                               IF out = {} THEN NoPath
                               ELSE BatchPath(r.start_time))
                ELSE /\ runs' = [runs EXCEPT ![th].pc = "analyze",
                                             ![th].merged = merged,
                                             ![th].chunks = <<>>,
                                             ![th].src = MergeInfo(r.chunks, ff)]
                     /\ finished' = finished
    /\ UNCHANGED <<otherVars, recVars, now, interval, is_running, next_fire, dropped, starts, chunkRows,
                   corrupt, activities>>

\* _analysis_job, lines 117-124: no activities -> return
JobAnalyze(th) ==
    /\ th \in JobThreads
    /\ runs[th].pc = "analyze"
    /\ \E backendOk \in BOOLEAN, elems \in Responses :
         LET acts == analyze_video(runs[th].merged, backendOk, elems, now)
         IN  IF acts = <<>>
             THEN /\ runs' = [runs EXCEPT ![th] = IdleRun]
                  /\ disk' = disk
                  /\ Finish(th, "periodic", "no_activities", runs[th].merged)
             ELSE /\ runs' = [runs EXCEPT ![th].pc = "process",
                                          ![th].acts = acts]
                  /\ UNCHANGED <<disk, finished>>
    /\ UNCHANGED <<otherVars, recVars, now, interval, is_running, next_fire, dropped, starts, chunkRows,
                   corrupt, activities>>

\* _analysis_job, lines 129-130: one iteration of the loop over activities
JobProcess(th) ==
    /\ th \in JobThreads
    /\ runs[th].pc = "process"
    /\ \E tlOk \in BOOLEAN, dbOk \in BOOLEAN :
         ProcessActivity(th, "periodic", tlOk, dbOk)
    /\ runs' = [runs EXCEPT ![th].acts = Tail(@),
                            ![th].pc = IF Len(runs[th].acts) = 1
                                       THEN "unlink" ELSE "process"]
    /\ UNCHANGED <<otherVars, recVars, now, interval, is_running, next_fire, dropped, starts, chunkRows,
                   corrupt, finished>>

\* _analysis_job, lines 133-138: merged_video.unlink()
JobUnlink(th) ==
    /\ th \in JobThreads
    /\ runs[th].pc = "unlink"
    /\ disk' = disk \ {runs[th].merged}
    /\ runs' = [runs EXCEPT ![th] = IdleRun]
    /\ Finish(th, "periodic", "success", runs[th].merged)
    /\ UNCHANGED <<otherVars, recVars, now, interval, is_running, next_fire, dropped, starts, chunkRows,
                   corrupt, activities>>

\* analyze_date: the windows of the day that hold a chunk. The loop steps
\* current_time by the interval from midnight; a window without chunks is
\* skipped without effect.
BatchChunks(day_chunks, current_time, batch_end) ==
    SelectSeq(day_chunks,
              LAMBDA c : current_time <= c.start_time /\ c.start_time < batch_end)

WindowOf(t, day_start, step) == t - ((t - day_start) % step)

NextWindows(r) ==
    {WindowOf(r.day_chunks[i].start_time, r.day_end - MinutesPerDay, interval) :
        i \in {j \in 1..Len(r.day_chunks) :
                  r.day_chunks[j].start_time >= r.cur}}

Min(S) == CHOOSE x \in S : \A y \in S : x <= y

\* analyze_date, lines 397-408
AnalyzeDate(date) ==
    /\ runs["backfill"].pc = "idle"
    /\ LET start_time == date * MinutesPerDay
           end_time == start_time + MinutesPerDay
           chunks == get_chunks_in_range(start_time, end_time)
       IN  IF chunks = <<>>
           THEN runs' = runs
           ELSE runs' = [runs EXCEPT !["backfill"] =
                    [IdleRun EXCEPT !.pc = "bf_loop", !.day_chunks = chunks,
                                    !.day_end = end_time, !.cur = start_time]]
    /\ UNCHANGED <<otherVars, recVars, now, interval, is_running, next_fire, dropped, starts, chunkRows,
                   disk, corrupt, activities, finished>>

\* analyze_date, lines 410-420 and 430: up to the merge of the next window
\* that has chunks, or the return when there is none
BackfillWindow ==
    /\ runs["backfill"].pc = "bf_loop"
    /\ LET r == runs["backfill"]
       IN  IF NextWindows(r) = {}
           THEN /\ runs' = [runs EXCEPT !["backfill"] = IdleRun]
                /\ UNCHANGED <<disk, finished>>
           ELSE LET w == Min(NextWindows(r))
                    batch == BatchChunks(r.day_chunks, w, w + interval)
                IN  \E ff \in FfOutcomes(batch) :
                      LET merged == MergeResult(batch, w, ff)
                          out == MergeOutput(batch, w, ff)
                      IN  /\ disk' = disk \cup out
                          /\ IF merged = NoPath
                             THEN /\ runs' = [runs EXCEPT
                                        !["backfill"].cur = w + interval]
                                  /\ Finish("backfill", "backfill",
                                            "merge_failed",
                                            IF out = {} THEN NoPath
                                            ELSE BatchPath(w))
                             ELSE /\ runs' = [runs EXCEPT
                                        !["backfill"].pc = "bf_analyze",
                                        !["backfill"].start_time = w,
                                        !["backfill"].end_time = w + interval,
                                        !["backfill"].merged = merged,
                                        !["backfill"].src = MergeInfo(batch, ff)]
                                  /\ finished' = finished
    /\ UNCHANGED <<otherVars, recVars, now, interval, is_running, next_fire, dropped, starts, chunkRows,
                   corrupt, activities>>

\* analyze_date, lines 421-422
BackfillAnalyze ==
    /\ runs["backfill"].pc = "bf_analyze"
    /\ \E backendOk \in BOOLEAN, elems \in Responses :
         LET acts == analyze_video(runs["backfill"].merged, backendOk, elems, now)
         IN  runs' = [runs EXCEPT !["backfill"].acts = acts,
                                  !["backfill"].pc = IF acts = <<>>
                                                     THEN "bf_unlink"
                                                     ELSE "bf_process"]
    /\ UNCHANGED <<otherVars, recVars, now, interval, is_running, next_fire, dropped, starts, chunkRows,
                   disk, corrupt, activities, finished>>

\* analyze_date, lines 424-426: one iteration of the loop over activities
BackfillProcess ==
    /\ runs["backfill"].pc = "bf_process"
    /\ \E tlOk \in BOOLEAN, dbOk \in BOOLEAN :
         ProcessActivity("backfill", "backfill", tlOk, dbOk)
    /\ runs' = [runs EXCEPT !["backfill"].acts = Tail(@),
                            !["backfill"].created = @ + 1,
                            !["backfill"].pc =
                                IF Len(runs["backfill"].acts) = 1
                                THEN "bf_unlink" ELSE "bf_process"]
    /\ UNCHANGED <<otherVars, recVars, now, interval, is_running, next_fire, dropped, starts, chunkRows,
                   corrupt, finished>>

\* analyze_date, lines 428-430: merged.unlink(missing_ok=True)
BackfillUnlink ==
    /\ runs["backfill"].pc = "bf_unlink"
    /\ disk' = disk \ {runs["backfill"].merged}
    /\ runs' = [runs EXCEPT !["backfill"].pc = "bf_loop",
                            !["backfill"].cur = runs["backfill"].end_time,
                            !["backfill"].merged = NoPath,
                            !["backfill"].src = NoMerge]
    /\ Finish("backfill", "backfill", "done", runs["backfill"].merged)
    /\ UNCHANGED <<otherVars, recVars, now, interval, is_running, next_fire, dropped, starts, chunkRows,
                   corrupt, activities>>

\* ------------------------------------------------------ the environment
\* the recorder's completion callback stores the chunk that just ended
\* (main.py _on_chunk_saved -> save_chunk_record)
ChunkSaved ==
    /\ now >= 1
    /\ \A c \in chunkRows : c.start_time # now - 1
    /\ chunkRows' = chunkRows \cup
           {[start_time |-> now - 1, end_time |-> now,
             file_path |-> ChunkPath(now - 1)]}
    /\ disk' = disk \cup {ChunkPath(now - 1)}
    /\ UNCHANGED <<otherVars, recVars, now, interval, is_running, next_fire, dropped, starts, runs,
                   corrupt, activities, finished>>

Damaged == {c \in chunkRows : c.file_path \notin disk \/ c.file_path \in corrupt}

\* a chunk file deleted out of band: its row stays
ChunkFileLost ==
    /\ Cardinality(Damaged) < MaxDamaged
    /\ \E c \in chunkRows :
         /\ c.file_path \in disk
         /\ disk' = disk \ {c.file_path}
    /\ UNCHANGED <<otherVars, recVars, now, interval, is_running, next_fire, dropped, starts, runs,
                   chunkRows, corrupt, activities, finished>>

\* a chunk file whose content ffmpeg cannot read
ChunkFileCorrupted ==
    /\ Cardinality(Damaged) < MaxDamaged
    /\ \E c \in chunkRows :
         /\ c.file_path \in disk
         /\ corrupt' = corrupt \cup {c.file_path}
    /\ UNCHANGED <<otherVars, recVars, now, interval, is_running, next_fire, dropped, starts, runs,
                   chunkRows, disk, activities, finished>>

\* time passes; the scheduler fires its trigger when it is due
TickAna ==
    /\ now < MaxTime
    /\ next_fire = -1 \/ now < next_fire
    /\ now' = now + 1
    /\ UNCHANGED <<anaVars, recVars, otherVars>>

InitAna ==
    /\ now = 0
    /\ interval \in Intervals
    /\ is_running = FALSE
    /\ next_fire = -1
    /\ dropped = 0
    /\ starts = 0
    /\ runs = [th \in Threads |-> IdleRun]
    /\ chunkRows = {}
    /\ disk = {}
    /\ corrupt = {}
    /\ activities = <<>>
    /\ finished = NoFinish
    /\ cfg = [chunk_duration |-> 5, frame_interval |-> 5]
    /\ RecConstructed
    /\ SumConstructed
    /\ StoreConstructed
    /\ call = NoResult

NextAna ==
    \/ \E imm \in BOOLEAN : Start(imm)
    \/ Stop
    \/ Trigger
    \/ \E th \in JobThreads : JobCollect(th)
    \/ \E th \in JobThreads : JobMerge(th)
    \/ \E th \in JobThreads : JobAnalyze(th)
    \/ \E th \in JobThreads : JobProcess(th)
    \/ \E th \in JobThreads : JobUnlink(th)
    \/ ChunkSaved
    \/ TickAna

\* the scheduler as the application drives it (main.py line 128):
\* start(run_immediately=False), jobs on the scheduler's thread only
NextSched ==
    \/ Start(FALSE)
    \/ Stop
    \/ Trigger
    \/ JobCollect("sched")
    \/ JobMerge("sched")
    \/ JobAnalyze("sched")
    \/ JobProcess("sched")
    \/ JobUnlink("sched")
    \/ ChunkSaved
    \/ ChunkFileLost
    \/ ChunkFileCorrupted
    \/ TickAna

NextBackfill ==
    \/ \E date \in {now \div MinutesPerDay} : AnalyzeDate(date)
    \/ BackfillWindow
    \/ BackfillAnalyze
    \/ BackfillProcess
    \/ BackfillUnlink
    \/ ChunkSaved
    \/ ChunkFileLost
    \/ ChunkFileCorrupted
    \/ TickAna

vars == <<now, anaVars, recVars, otherVars>>

SpecAna == InitAna /\ [][NextAna]_vars

SpecSched == InitAna /\ [][NextSched]_vars

SpecBackfill == InitAna /\ [][NextBackfill]_vars

\* ------------------------------------------------------------ claims C1-C4

\* C1: at any moment at most one _analysis_job is executing, whether the
\* interval trigger or start(run_immediately=True) started it.
C1_OneRunAtATime ==
    Cardinality({th \in JobThreads : runs[th].pc # "idle"}) <= 1

\* C2: every persisted activity starts at W + start_minutes and ends at
\* W + end_minutes, W being the start of the window of its run (the timestamp
\* in the name of the merged file).
C2_TimesFromWindowStart ==
    \A i \in 1..Len(activities) :
        /\ activities[i].start_time =
               activities[i].window + activities[i].start_minutes
        /\ activities[i].end_time =
               activities[i].window + activities[i].end_minutes

\* C3: when a periodic run or a backfill window is over, the merged file it
\* created does not exist any more.
C3_TempFileGone == finished.created => ~finished.exists

\* C4 as stated: no row comes from a window one of whose selected chunks has
\* a missing or unreadable file, or whose merge failed.
C4_AnyMissingAborts ==
    \A i \in 1..Len(activities) :
        /\ activities[i].src.nexist = activities[i].src.nsel
        /\ ~activities[i].src.bad
        /\ activities[i].src.ff = "ok"

MergeSound(src) == src.nexist > 0 /\ ~src.bad /\ src.ff = "ok"

\* C4 amended: a run gets past its merge, and a row is written, only when at
\* least one selected chunk file existed, none of the existing ones was
\* unreadable and the merge succeeded.
C4_NoFileOrFailedMergeAborts ==
    /\ \A th \in Threads :
          runs[th].pc \in {"analyze", "process", "unlink"}
              => MergeSound(runs[th].src)
    /\ \A i \in 1..Len(activities) : MergeSound(activities[i].src)

\* a scheduled run that ended at its merge, with nothing persisted
C4_Witness ==
    /\ finished.kind = "periodic"
    /\ finished.outcome = "merge_failed"
    /\ activities = <<>>

\* ========================================================== ScreenRecorder
anaOnly == <<interval, is_running, next_fire, dropped, starts, runs, corrupt,
             activities, finished>>

\* the recorder's state in the words of the state machine
\* Idle -> Recording -> (Paused <-> Recording) -> Stopped
RecState ==
    IF is_recording THEN (IF is_paused THEN "Paused" ELSE "Recording")
    ELSE IF recording_thread = 0 THEN "Idle" ELSE "Stopped"

\* main.py line 91: the chunks directory of the day the application started
OutputDir == <<"recordings", 0, "chunks">>

\* _save_chunk, lines 201-203: chunk_<start_time to the second>.mp4
ChunkFile(t) ==
    [dir |-> OutputDir,
     stem |-> <<"chunk", t \div SecondsPerDay, t % SecondsPerDay>>]

\* _recording_loop, lines 107-112
NewLoop(t) == [NoLoop EXCEPT !.pc = "sleep", !.wake = t, !.chunk_start_time = t]

CoreUnchanged ==
    <<is_recording, is_paused, recording_thread, loops>>' =
    <<is_recording, is_paused, recording_thread, loops>>

\* start()
RStart ==
    /\ ctl.pc = "idle"
    /\ calls < MaxCalls
    /\ calls' = calls + 1
    /\ IF is_recording
       THEN UNCHANGED <<is_recording, is_paused, recording_thread, loops>>
       ELSE /\ recording_thread < MaxLoops
            /\ is_recording' = TRUE
            /\ is_paused' = FALSE
            /\ recording_thread' = recording_thread + 1
            /\ loops' = [loops EXCEPT ![recording_thread + 1] = NewLoop(now)]
    /\ lastCall' = [op |-> "start", was |-> RecState, noop |-> CoreUnchanged]
    /\ UNCHANGED <<now, cfg, ctl, notified, overwrites, lastStop, chunkRows,
                   disk, anaOnly, otherVars>>

\* stop(), lines 86-91: up to the call of join(timeout=5.0)
RStop ==
    /\ ctl.pc = "idle"
    /\ calls < MaxCalls
    /\ calls' = calls + 1
    /\ IF ~is_recording
       THEN UNCHANGED <<is_recording, ctl>>
       ELSE /\ is_recording' = FALSE
            /\ ctl' = [pc |-> "joining", deadline |-> now + JoinTimeout,
                       buf |-> loops[recording_thread].frames_buffer]
    /\ UNCHANGED <<is_paused, recording_thread, loops>>
    /\ lastCall' = [op |-> "stop", was |-> RecState, noop |-> CoreUnchanged]
    /\ UNCHANGED <<now, cfg, notified, overwrites, lastStop, chunkRows, disk,
                   anaOnly, otherVars>>

\* what a stop() that returns now leaves of the buffer it was called on
StopOutcome ==
    IF ctl.buf = <<>> THEN "empty"
    ELSE IF \E i \in 1..Len(notified) : notified[i].frames = ctl.buf
         THEN "delivered"
    ELSE IF loops[recording_thread].pc = "done" THEN "save_failed"
    ELSE "pending"

\* stop(), lines 91-92: join returns when the thread has ended or after 5 s
RStopReturn ==
    /\ ctl.pc = "joining"
    /\ loops[recording_thread].pc = "done" \/ now >= ctl.deadline
    /\ ctl' = NoJoin
    /\ lastStop' = StopOutcome
    /\ UNCHANGED <<now, cfg, calls, is_recording, is_paused, recording_thread, loops,
                   notified, overwrites, lastCall, chunkRows, disk, anaOnly, otherVars>>

\* pause()
RPause ==
    /\ calls < MaxCalls
    /\ calls' = calls + 1
    /\ is_paused' = TRUE
    /\ UNCHANGED <<now, cfg, is_recording, recording_thread, loops, ctl,
                   notified, overwrites, lastCall, lastStop, chunkRows, disk,
                   anaOnly, otherVars>>

\* resume()
RResume ==
    /\ calls < MaxCalls
    /\ calls' = calls + 1
    /\ is_paused' = FALSE
    /\ UNCHANGED <<now, cfg, is_recording, recording_thread, loops, ctl,
                   notified, overwrites, lastCall, lastStop, chunkRows, disk,
                   anaOnly, otherVars>>

\* _recording_loop, line 114 false, lines 147-150
ExitLoop(l) ==
    IF l.frames_buffer = <<>>
    THEN [l EXCEPT !.pc = "done"]
    ELSE [l EXCEPT !.pc = "finalsave", !.chunk_end_time = now]

PausedIterationDroppingBuffer(l) ==
    [l EXCEPT !.wake = now + PauseSleep, !.frames_buffer = <<>>]

\* lines 116-118: paused
PausedIteration(l) == [l EXCEPT !.wake = now + PauseSleep]

\* lines 143-145: an exception inside the iteration
RaisedIteration(l) == [l EXCEPT !.wake = now + ErrorSleep]

FailedCaptureEndingLoop(l) == [l EXCEPT !.frame_start = now, !.pc = "done"]

\* lines 123-124 with frame None, 139-141
FailedCapture(l) ==
    [l EXCEPT !.frame_start = now, !.wake = now + cfg.frame_interval]

\* lines 123-141 with a frame (known by the second it was taken in):
\* appended; the chunk is closed once chunk_duration has elapsed since
\* chunk_start_time
Captured(l) ==
    LET got == [l EXCEPT !.frame_start = now,
                         !.frames_buffer = Append(@, now),
                         !.captured = Append(@, now)]
    IN  IF now - l.chunk_start_time >= cfg.chunk_duration
        THEN [got EXCEPT !.pc = "saving", !.chunk_end_time = now]
        ELSE [got EXCEPT !.wake = now + cfg.frame_interval]

Iteration(l, outcome) ==
    IF ~is_recording THEN ExitLoop(l)
    ELSE IF is_paused THEN PausedIteration(l)
    ELSE IF outcome = "raise" THEN RaisedIteration(l)
    ELSE IF outcome = "none" THEN FailedCapture(l)
    ELSE Captured(l)

\* one pass of the while loop, from the test of is_recording to the sleep
LoopIter(th) ==
    /\ loops[th].pc = "sleep"
    /\ now >= loops[th].wake
    /\ \E outcome \in {"frame", "none", "raise"} :
         loops' = [loops EXCEPT ![th] = Iteration(loops[th], outcome)]
    /\ UNCHANGED <<now, cfg, calls, is_recording, is_paused, recording_thread, ctl,
                   notified, overwrites, lastCall, lastStop, chunkRows, disk,
                   anaOnly, otherVars>>

Notification(l, th, final) ==
    [path |-> ChunkFile(l.chunk_start_time), start_time |-> l.chunk_start_time,
     end_time |-> l.chunk_end_time, frames |-> l.frames_buffer,
     paused |-> l.paused, final |-> final, by |-> th]

SaveChunkWithoutReturn(th, final, writerOk, callbackOk) ==
    LET l == loops[th]
        path == ChunkFile(l.chunk_start_time)
    IN  /\ disk' = IF writerOk THEN disk \cup {path} ELSE disk
        /\ overwrites' = IF writerOk /\ path \in disk
                         THEN overwrites \cup {path} ELSE overwrites
        /\ notified' = Append(notified, Notification(l, th, final))
        /\ chunkRows' = IF callbackOk
                        THEN chunkRows \cup
                             {[start_time |-> l.chunk_start_time,
                               end_time |-> l.chunk_end_time,
                               file_path |-> path]}
                        ELSE chunkRows

\* _save_chunk: the file is written over whatever has its name, then the
\* callback stores the row (main.py _on_chunk_saved); nothing when the writer
\* does not open; an exception of the callback is logged
SaveChunk(th, final, writerOk, callbackOk) ==
    LET l == loops[th]
        path == ChunkFile(l.chunk_start_time)
    IN  IF writerOk
        THEN /\ disk' = disk \cup {path}
             /\ overwrites' = IF path \in disk THEN overwrites \cup {path}
                              ELSE overwrites
             /\ notified' = Append(notified, Notification(l, th, final))
             /\ chunkRows' = IF callbackOk
                             THEN chunkRows \cup
                                  {[start_time |-> l.chunk_start_time,
                                    end_time |-> l.chunk_end_time,
                                    file_path |-> path]}
                             ELSE chunkRows
        ELSE UNCHANGED <<disk, overwrites, notified, chunkRows>>

Max0(x) == IF x > 0 THEN x ELSE 0

\* lines 132-141: the chunk is saved, the buffer and the chunk timer restart
AfterSave(l) ==
    [l EXCEPT !.pc = "sleep", !.handed = @ \o l.frames_buffer,
              !.frames_buffer = <<>>, !.chunk_start_time = now, !.paused = 0,
              !.wake = now + Max0(cfg.frame_interval - (now - l.frame_start))]

\* the frames of the saves that _save_chunk gave up (lines 214-216)
Aborted(l, writerOk) ==
    IF writerOk THEN l.aborted ELSE l.aborted \o l.frames_buffer

LoopSave(th) ==
    /\ loops[th].pc = "saving"
    /\ \E writerOk \in BOOLEAN, callbackOk \in BOOLEAN :
         /\ SaveChunk(th, FALSE, writerOk, callbackOk)
         /\ loops' = [loops EXCEPT
                         ![th] = [AfterSave(loops[th]) EXCEPT
                                    !.aborted = Aborted(loops[th], writerOk)]]
    /\ UNCHANGED <<now, cfg, calls, is_recording, is_paused, recording_thread, ctl,
                   lastCall, lastStop, anaOnly, otherVars>>

\* lines 148-156: the remaining frames are saved and the thread ends
LoopFinalSave(th) ==
    /\ loops[th].pc = "finalsave"
    /\ \E writerOk \in BOOLEAN, callbackOk \in BOOLEAN :
         /\ SaveChunk(th, TRUE, writerOk, callbackOk)
         /\ loops' = [loops EXCEPT
                         ![th].pc = "done",
                         ![th].handed = @ \o loops[th].frames_buffer,
                         ![th].frames_buffer = <<>>,
                         ![th].aborted = Aborted(loops[th], writerOk)]
    /\ UNCHANGED <<now, cfg, calls, is_recording, is_paused, recording_thread, ctl,
                   lastCall, lastStop, anaOnly, otherVars>>

\* a second passes: no sleep is overslept, a save takes at most MaxSaveTime,
\* join returns as soon as it can; a loop that is asleep while the recorder
\* is paused has that second counted against its open chunk
TickRec ==
    /\ now < MaxClock
    /\ \A th \in LoopIds :
          /\ loops[th].pc = "sleep" => now < loops[th].wake
          /\ loops[th].pc \in {"saving", "finalsave"}
                => now - loops[th].chunk_end_time < MaxSaveTime
    /\ ctl.pc = "joining"
          => now < ctl.deadline /\ loops[recording_thread].pc # "done"
    /\ now' = now + 1
    /\ loops' = [th \in LoopIds |->
                    IF is_recording /\ is_paused /\ loops[th].pc = "sleep"
                    THEN [loops[th] EXCEPT !.paused = @ + 1]
                    ELSE loops[th]]
    /\ UNCHANGED <<cfg, calls, is_recording, is_paused, recording_thread, ctl,
                   notified, overwrites, lastCall, lastStop, chunkRows, disk,
                   anaOnly, otherVars>>

InitRec ==
    /\ now = 0
    /\ cfg \in Configs
    /\ RecConstructed
    /\ SumConstructed
    /\ StoreConstructed
    /\ call = NoResult
    /\ interval = 2
    /\ is_running = FALSE
    /\ next_fire = -1
    /\ dropped = 0
    /\ starts = 0
    /\ runs = [th \in Threads |-> IdleRun]
    /\ chunkRows = {}
    /\ disk = {}
    /\ corrupt = {}
    /\ activities = <<>>
    /\ finished = NoFinish

NextRec ==
    \/ RStart
    \/ RStop
    \/ RStopReturn
    \/ RPause
    \/ RResume
    \/ \E th \in LoopIds : LoopIter(th)
    \/ \E th \in LoopIds : LoopSave(th)
    \/ \E th \in LoopIds : LoopFinalSave(th)
    \/ TickRec

SpecRec == InitRec /\ [][NextRec]_vars

\* ------------------------------------------------------ capture-loop claims
Chunks == 1..Len(notified)

Last(q) == q[Len(q)]

\* C5: the chunk timer counts un-paused time only: no chunk that is emitted
\* spans a second during which the recorder was paused.
C5_NoPausedTimeInChunk == \A i \in Chunks : notified[i].paused = 0

\* C6: a stop() called with frames in the buffer has had them flushed as the
\* final chunk, and the completion callback called for it, when it returns.
C6_FlushedWhenStopReturns == lastStop # "pending"

\* C7: start() in Recording, Paused or Stopped and stop() in Stopped change
\* nothing of the recorder and start no capture loop.
C7_NoOpOutsideIdle ==
    (\/ lastCall.op = "start" /\ lastCall.was # "Idle"
     \/ lastCall.op = "stop" /\ lastCall.was = "Stopped")
        => lastCall.noop

IsStrictlyIncreasing(q) == \A i \in 1..Len(q) - 1 : q[i] < q[i + 1]

\* C8: pausing and resuming neither drops nor repeats a frame: in every
\* loop the frames taken are, in order and each once, the frames already
\* handed to a save followed by the frames in the buffer; the chunks of one
\* loop share no frame; and a chunk that is not the final one of its loop
\* was closed by the timer only, so the frames taken before a pause are in
\* the chunk of the frames taken after the resume.
C8_PauseKeepsFrames ==
    /\ \A th \in LoopIds :
          /\ loops[th].handed \o loops[th].frames_buffer = loops[th].captured
          /\ IsStrictlyIncreasing(loops[th].captured)
    /\ \A i \in Chunks :
          /\ notified[i].frames # <<>>
          /\ ~notified[i].final
                => notified[i].end_time - notified[i].start_time
                      >= cfg.chunk_duration
          /\ \A j \in Chunks :
                i < j /\ notified[i].by = notified[j].by
                   => Last(notified[i].frames) < notified[j].frames[1]

\* a chunk closed by the timer that holds a frame taken in its first second,
\* a pause after it, and a frame taken after the resume
C8_Witness ==
    \E i \in Chunks :
       /\ ~notified[i].final
       /\ notified[i].paused > 0
       /\ Len(notified[i].frames) >= 2
       /\ notified[i].frames[1] = notified[i].start_time

\* C9: no two chunks get the same file name, and no save writes over a file
\* that exists.
C9_NoFilenameCollision ==
    /\ overwrites = {}
    /\ \A i, j \in Chunks : i # j => notified[i].path # notified[j].path

\* C10: an iteration that takes no frame while the recorder is recording and
\* not paused (the capture returned nothing, or an exception was raised)
\* leaves the loop running with its buffer as it was, and the next attempt is
\* one frame interval (one second after an exception) away.
C10_FailureKeepsLoop ==
    [][\A th \in LoopIds :
          (/\ loops[th].pc = "sleep"
           /\ loops'[th] # loops[th]
           /\ now' = now
           /\ is_recording /\ ~is_paused
           /\ loops'[th].captured = loops[th].captured)
             => /\ loops'[th].pc = "sleep"
                /\ loops'[th].frames_buffer = loops[th].frames_buffer
                /\ loops'[th].wake \in {now + cfg.frame_interval,
                                        now + ErrorSleep}]_vars

\* a loop asleep with frames in its buffer after a capture that failed
C10_Witness ==
    \E th \in LoopIds :
       /\ is_recording
       /\ loops[th].pc = "sleep"
       /\ loops[th].frames_buffer # <<>>
       /\ loops[th].frame_start > Last(loops[th].frames_buffer)

\* C11: a save whose video writer does not open produces no completion
\* notification, no file and no RecordingChunk record; when it was not the
\* final save the loop is asleep afterwards with an empty buffer and a new
\* chunk started, its next capture at most one frame interval away.
C11_WriterFailureAbortsOneChunk ==
    [][\A th \in LoopIds :
          (/\ loops[th].pc \in {"saving", "finalsave"}
           /\ Len(loops'[th].aborted) > Len(loops[th].aborted))
             => /\ notified' = notified
                /\ chunkRows' = chunkRows
                /\ disk' = disk
                /\ loops[th].pc = "saving"
                      => /\ loops'[th].pc = "sleep"
                         /\ loops'[th].frames_buffer = <<>>
                         /\ loops'[th].chunk_start_time = now
                         /\ loops'[th].wake <= now + cfg.frame_interval]_vars

\* a loop that gave up a save and had a later chunk of its own notified
C11_Witness ==
    \E th \in LoopIds, i \in Chunks :
       /\ loops[th].aborted # <<>>
       /\ notified[i].by = th
       /\ notified[i].frames[1] > Last(loops[th].aborted)

\* ===================================== StorageManager.get_chunks_in_range
MaxTable == 3
MaxStamp == 2

\* display_id = None
NoDisplay == -1

Displays == {1, 2}

\* the columns of recording_chunks the query reads; the id is the position
\* of the row in the table
ChunkShapes ==
    {r \in [start_time : 0..MaxStamp, end_time : 0..MaxStamp,
            display_id : Displays] : r.start_time <= r.end_time}

Tables == UNION {[1..n -> ChunkShapes] : n \in 0..MaxTable}

WithId(table, i) ==
    [id |-> i, start_time |-> table[i].start_time,
     end_time |-> table[i].end_time, display_id |-> table[i].display_id]

FilterAnyBound(c, a, b, display_id) ==
    /\ c.start_time >= a \/ c.end_time <= b
    /\ display_id # NoDisplay => c.display_id = display_id

\* lines 130-136: the filters of the query
Filter(c, a, b, display_id) ==
    /\ c.start_time >= a
    /\ c.end_time <= b
    /\ display_id # NoDisplay => c.display_id = display_id

\* lines 130-139: filter, order_by(start_time), all()
ChunkQuery(table, a, b, display_id) ==
    SortByStart({c \in {WithId(table, i) : i \in DOMAIN table} :
                    Filter(c, a, b, display_id)})

QueryCall ==
    /\ call = NoResult
    /\ \E table \in Tables, a \in 0..MaxStamp, b \in 0..MaxStamp,
          display_id \in Displays \cup {NoDisplay} :
         call' = [fn |-> "get_chunks_in_range", table |-> table, a |-> a,
                  b |-> b, display_id |-> display_id,
                  res |-> ChunkQuery(table, a, b, display_id)]
    /\ UNCHANGED <<now, anaVars, recVars, cleanup, flush, sumVars>>

InitLib ==
    /\ now = 0
    /\ interval = 2
    /\ is_running = FALSE
    /\ next_fire = -1
    /\ dropped = 0
    /\ starts = 0
    /\ runs = [th \in Threads |-> IdleRun]
    /\ chunkRows = {}
    /\ disk = {}
    /\ corrupt = {}
    /\ activities = <<>>
    /\ finished = NoFinish
    /\ cfg = [chunk_duration |-> 5, frame_interval |-> 5]
    /\ RecConstructed
    /\ SumConstructed
    /\ flush = NoFlush

InitQuery ==
    /\ InitLib
    /\ cleanup = NoCleanup
    /\ call = NoResult

SpecQuery == InitQuery /\ [][QueryCall]_vars

\* C12: the result of get_chunks_in_range(a, b, display) holds exactly the
\* stored rows with a <= start_time and end_time <= b (of that display when
\* one is given), each once, in ascending order of start_time.
C12_RangeQueryExact ==
    call.fn = "get_chunks_in_range" =>
       LET res == call.res
           ids == {res[k].id : k \in 1..Len(res)}
       IN  /\ ids = {i \in DOMAIN call.table :
                        /\ call.a <= call.table[i].start_time
                        /\ call.table[i].end_time <= call.b
                        /\ call.display_id = NoDisplay
                              \/ call.table[i].display_id = call.display_id}
           /\ Cardinality(ids) = Len(res)
           /\ \A k \in 1..Len(res) : res[k] = WithId(call.table, res[k].id)
           /\ \A k \in 1..Len(res) - 1 :
                 res[k].start_time <= res[k + 1].start_time

\* a query with a display that returns two rows and leaves out a row of the
\* other display and a row outside the range
C12_Witness ==
    /\ call.fn = "get_chunks_in_range"
    /\ call.display_id # NoDisplay
    /\ Len(call.res) = 2
    /\ Len(call.table) = 3
    /\ call.res[1].id > call.res[2].id

\* ================================== StorageManager.cleanup_old_recordings
MaxDay == 3

RetentionDays == {1, 2}

\* line 150: datetime.now() - timedelta(days=retention_days)
CutoffDate(t, n) == t - n * SecondsPerDay

OldChunksUpToCutoff(rows, cutoff) == {c \in rows : c.start_time <= cutoff}

\* lines 159-163: the rows with start_time < cutoff_date
OldChunks(rows, cutoff) == {c \in rows : c.start_time < cutoff}

storeOnly == <<interval, is_running, next_fire, dropped, starts, runs,
               corrupt, activities, finished, recVars, call, sumVars>>

\* _save_chunk up to writer.release(): the file of the chunk started now
StoreFlushWrite ==
    /\ flush.pc = "idle"
    /\ ChunkFile(now) \notin disk
    /\ disk' = disk \cup {ChunkFile(now)}
    /\ flush' = [pc |-> "written", file_path |-> ChunkFile(now),
                 start_time |-> now, end_time |-> now + cfg.chunk_duration]
    /\ UNCHANGED <<now, chunkRows, cleanup, storeOnly>>

\* on_chunk_complete -> _on_chunk_saved -> save_chunk_record: the row is
\* committed, or the insert raises and _save_chunk logs the exception
StoreFlushRecord ==
    /\ flush.pc = "written"
    /\ \E dbOk \in BOOLEAN :
         chunkRows' = IF dbOk
                      THEN chunkRows \cup {[start_time |-> flush.start_time,
                                            end_time |-> flush.end_time,
                                            file_path |-> flush.file_path]}
                      ELSE chunkRows
    /\ flush' = NoFlush
    /\ UNCHANGED <<now, disk, cleanup, storeOnly>>

\* lines 150-163
CleanupBegin ==
    /\ cleanup.pc = "idle"
    /\ LET cutoff == CutoffDate(now, cleanup.retention_days)
       IN  cleanup' = [IdleCleanup(cleanup.retention_days) EXCEPT
                          !.pc = "loop", !.cutoff = cutoff,
                          !.todo = OldChunks(chunkRows, cutoff),
                          !.before = chunkRows, !.beforeDisk = disk]
    /\ UNCHANGED <<now, chunkRows, disk, flush, storeOnly>>

\* lines 165-179: one chunk of the loop; unlink (or stat) can raise, and the
\* chunk is then left as it is
CleanupChunk ==
    /\ cleanup.pc = "loop"
    /\ \E c \in cleanup.todo, unlinkOk \in BOOLEAN :
         IF c.file_path \notin disk
         THEN /\ cleanup' = [cleanup EXCEPT !.todo = @ \ {c},
                                            !.deleted = @ \cup {c}]
              /\ UNCHANGED disk
         ELSE IF unlinkOk
         THEN /\ disk' = disk \ {c.file_path}
              /\ cleanup' = [cleanup EXCEPT !.todo = @ \ {c},
                                            !.deleted = @ \cup {c},
                                            !.unlinked = @ \cup {c.file_path}]
         ELSE /\ cleanup' = [cleanup EXCEPT !.todo = @ \ {c},
                                            !.failed = @ \cup {c}]
              /\ UNCHANGED disk
    /\ UNCHANGED <<now, chunkRows, flush, storeOnly>>

\* lines 181-207: commit, or the commit raises and the session is rolled back
CleanupCommit ==
    /\ cleanup.pc = "loop"
    /\ cleanup.todo = {}
    /\ \E commitOk \in BOOLEAN :
         IF commitOk
         THEN /\ chunkRows' = chunkRows \ cleanup.deleted
              /\ cleanup' = [cleanup EXCEPT !.pc = "idle", !.result = "ok"]
         ELSE /\ UNCHANGED chunkRows
              /\ cleanup' = [cleanup EXCEPT !.pc = "idle",
                                            !.result = "raised"]
    /\ UNCHANGED <<now, disk, flush, storeOnly>>

\* the process ends inside the loop: the session is never committed
CleanupInterrupted ==
    /\ cleanup.pc = "loop"
    /\ cleanup' = [cleanup EXCEPT !.pc = "idle", !.result = "interrupted"]
    /\ UNCHANGED <<now, chunkRows, disk, flush, storeOnly>>

\* a day passes while nothing is in progress
TickStore ==
    /\ now < MaxDay * SecondsPerDay
    /\ cleanup.pc = "idle"
    /\ flush.pc = "idle"
    /\ now' = now + SecondsPerDay
    /\ UNCHANGED <<chunkRows, disk, cleanup, flush, storeOnly>>

InitStore ==
    /\ InitLib
    /\ cleanup \in {IdleCleanup(n) : n \in RetentionDays}
    /\ call = NoResult

NextStore ==
    \/ StoreFlushWrite
    \/ StoreFlushRecord
    \/ CleanupBegin
    \/ CleanupChunk
    \/ CleanupCommit
    \/ CleanupInterrupted
    \/ TickStore

SpecStore == InitStore /\ [][NextStore]_vars

\* --------------------------------------------------------- cleanup claims
IsOld(c) == c.start_time < cleanup.cutoff

Removed(c) == c \notin chunkRows /\ c.file_path \notin disk

Untouched(c) ==
    /\ c \in chunkRows
    /\ c.file_path \in cleanup.beforeDisk => c.file_path \in disk

CleanupReturned == cleanup.pc = "idle" /\ cleanup.result = "ok"

\* C13: a cleanup with a retention of N days has, when it returns, deleted
\* the file and the record of exactly the chunks that started before
\* now - N days, and left every other chunk's file and record as they were.
C13_CleanupDeletesExactlyOld ==
    CleanupReturned =>
       \A c \in cleanup.before : IF IsOld(c) THEN Removed(c) ELSE Untouched(c)

\* C13 as the code has it: a chunk that started before now - N days and
\* whose file could not be deleted keeps its file and its record; every
\* other such chunk loses both, a file already missing being no error;
\* every chunk that did not start before now - N days is untouched.
C13_CleanupDeletesOldUnlessUnlinkFails ==
    CleanupReturned =>
       \A c \in cleanup.before :
          IF IsOld(c) /\ c \notin cleanup.failed
          THEN Removed(c)
          ELSE Untouched(c)

\* a cleanup that deleted a chunk with its file, deleted the record of a
\* chunk whose file was already missing, and kept a chunk that started
\* exactly at the cutoff
C13_Witness ==
    /\ CleanupReturned
    /\ \E c, d, e \in cleanup.before :
          /\ IsOld(c) /\ c.file_path \in cleanup.beforeDisk /\ Removed(c)
          /\ IsOld(d) /\ d.file_path \notin cleanup.beforeDisk /\ Removed(d)
          /\ e.start_time = cleanup.cutoff /\ e \in chunkRows
             /\ e.file_path \in disk

\* C14: whenever cleanup is not running, interrupted or not, no record is
\* left whose file cleanup has deleted.
C14_NoRecordOfDeletedFile ==
    cleanup.pc = "idle" =>
       \A c \in chunkRows : c.file_path \notin cleanup.unlinked

\* C15: when no save and no cleanup is in progress, a record exists exactly
\* when the chunk file it names exists.
C15_RecordIffFile ==
    (flush.pc = "idle" /\ cleanup.pc = "idle") =>
       /\ \A c \in chunkRows : c.file_path \in disk
       /\ \A f \in disk : \E c \in chunkRows : c.file_path = f

\* ======================================= backfill next to the periodic job
MaxBothTime == 2

\* time passes, up to the first firing of the trigger
TickBoth ==
    /\ now < MaxBothTime
    /\ TickAna

\* analyze_date runs on the thread of its caller while the scheduler's thread
\* runs _analysis_job
NextBoth ==
    \/ Start(FALSE)
    \/ Trigger
    \/ JobCollect("sched")
    \/ JobMerge("sched")
    \/ JobAnalyze("sched")
    \/ JobProcess("sched")
    \/ JobUnlink("sched")
    \/ \E date \in {now \div MinutesPerDay} : AnalyzeDate(date)
    \/ BackfillWindow
    \/ BackfillAnalyze
    \/ BackfillProcess
    \/ BackfillUnlink
    \/ ChunkSaved
    \/ TickBoth

SpecBoth == InitAna /\ [][NextBoth]_vars

JobActive == runs["sched"].pc \in {"merge", "analyze", "process", "unlink"}

BackfillActive ==
    runs["backfill"].pc \in {"bf_analyze", "bf_process", "bf_unlink"}

\* C16: a backfill and a periodic run are never at work at the same time on
\* windows that overlap.
C16_BackfillSerialized ==
    (JobActive /\ BackfillActive) =>
       \/ runs["sched"].end_time <= runs["backfill"].start_time
       \/ runs["backfill"].end_time <= runs["sched"].start_time

\* ============================ GeminiService.analyze_video, step by step
\* what _analysis_job does with the result of analyze_video (lines 119-124)
Analyzed(th, acts) ==
    IF acts = <<>>
    THEN /\ runs' = [runs EXCEPT ![th] = IdleRun]
         /\ disk' = disk
         /\ Finish(th, "periodic", "no_activities", runs[th].merged)
    ELSE /\ runs' = [runs EXCEPT ![th].pc = "process", ![th].acts = acts,
                                 ![th].upload = NoUpload]
         /\ UNCHANGED <<disk, finished>>

\* the states of an uploaded file, and what the backend makes of it in the
\* end: a file may stay in PROCESSING
FileStates == {"PROCESSING", "ACTIVE", "FAILED"}

\* lines 57-66: the file is missing, upload_file raises, or the file is
\* uploaded and its state read
JobUpload(th) ==
    /\ th \in JobThreads
    /\ runs[th].pc = "analyze"
    /\ \/ /\ runs[th].merged \notin disk
          /\ Analyzed(th, <<>>)
       \/ /\ runs[th].merged \in disk
          /\ \/ Analyzed(th, <<>>)
             \/ /\ \E fate \in FileStates : \E state \in {"PROCESSING", fate} :
                     runs' = [runs EXCEPT
                                ![th].pc = "wait",
                                ![th].upload = [state |-> state,
                                                fate |-> fate]]
                /\ UNCHANGED <<disk, finished>>
    /\ UNCHANGED <<otherVars, recVars, now, interval, is_running, next_fire,
                   dropped, starts, chunkRows, corrupt, activities>>

\* line 69: genai.get_file: the file as it is now
GetFile(upload) == {"PROCESSING", upload.fate}

\* lines 66-69: while the state is PROCESSING: sleep 2 s and read it again
JobPoll(th) ==
    /\ th \in JobThreads
    /\ runs[th].pc = "wait"
    /\ runs[th].upload.state = "PROCESSING"
    /\ \E state \in GetFile(runs[th].upload) :
         runs' = [runs EXCEPT ![th].upload.state = state]
    /\ UNCHANGED <<otherVars, recVars, now, interval, is_running, next_fire,
                   dropped, starts, chunkRows, disk, corrupt, activities,
                   finished>>

\* lines 71-96: FAILED returns []; else generate_content and the parse, any
\* exception returning []
JobGenerate(th) ==
    /\ th \in JobThreads
    /\ runs[th].pc = "wait"
    /\ runs[th].upload.state # "PROCESSING"
    /\ \E backendOk \in BOOLEAN, elems \in Responses :
         Analyzed(th, IF runs[th].upload.state = "FAILED" THEN <<>>
                      ELSE analyze_video(runs[th].merged, backendOk, elems,
                                         now))
    /\ UNCHANGED <<otherVars, recVars, now, interval, is_running, next_fire,
                   dropped, starts, chunkRows, corrupt, activities>>

NextPoll ==
    \/ Start(FALSE)
    \/ Trigger
    \/ JobCollect("sched")
    \/ JobMerge("sched")
    \/ JobUpload("sched")
    \/ JobPoll("sched")
    \/ JobGenerate("sched")
    \/ JobProcess("sched")
    \/ JobUnlink("sched")
    \/ ChunkSaved
    \/ TickAna

\* the scheduler's worker thread keeps running the job it has started
SpecPoll ==
    /\ InitAna
    /\ [][NextPoll]_vars
    /\ WF_vars(JobCollect("sched"))
    /\ WF_vars(JobMerge("sched"))
    /\ WF_vars(JobUpload("sched"))
    /\ WF_vars(JobPoll("sched"))
    /\ WF_vars(JobGenerate("sched"))
    /\ WF_vars(JobProcess("sched"))
    /\ WF_vars(JobUnlink("sched"))

\* C17: every call of analyze_video returns: a run that has entered it
\* leaves it, whatever the backend does.
C17_ExtractionReturns ==
    (runs["sched"].pc \in {"analyze", "wait"})
        ~> (runs["sched"].pc \notin {"analyze", "wait"})

\* ============================================= LLMService.parse_category
\* A string is a word with or without upper-case letters and with leading
\* and trailing blanks. The Chinese names are written in pinyin: gongzuo
\* (work), huiyi (meeting), xiuxi (break), xiaolv (productivity), xuexi
\* (learning), yule (entertainment), qita (other), biancheng, kaifa, yanjiu,
\* yuedu, shipin, youxi; they have no upper case.
MaxPad == 1

ChineseKeys ==
    {"gongzuo", "huiyi", "xiuxi", "xiaolv", "xuexi", "yule", "biancheng",
     "kaifa", "yanjiu", "yuedu", "shipin", "youxi"}

EnglishKeys ==
    {"work", "meeting", "break", "productivity", "learning", "entertainment",
     "coding", "development", "research", "reading", "video", "gaming"}

\* words that are no key of the table
OtherWords == {"qita", "other", "deep work"}

Cased == EnglishKeys \cup {"other", "deep work"}

Strings ==
    {x \in [word : ChineseKeys \cup EnglishKeys \cup OtherWords,
            upper : BOOLEAN, lead : 0..MaxPad, trail : 0..MaxPad] :
        x.upper => x.word \in Cased}

Plain(w) == [word |-> w, upper |-> FALSE, lead |-> 0, trail |-> 0]

LowerKeepingCase(x) == x

\* str.lower()
Lower(x) == [x EXCEPT !.upper = FALSE]

\* str.strip()
Strip(x) == [x EXCEPT !.lead = 0, !.trail = 0]

\* lines 171-198: category_map
category_map(w) ==
    CASE w \in {"gongzuo", "biancheng", "kaifa", "work", "coding",
                "development"} -> "gongzuo"
      [] w \in {"huiyi", "meeting"} -> "huiyi"
      [] w \in {"xiuxi", "break"} -> "xiuxi"
      [] w \in {"xiaolv", "productivity"} -> "xiaolv"
      [] w \in {"xuexi", "yanjiu", "yuedu", "learning", "research",
                "reading"} -> "xuexi"
      [] w \in {"yule", "shipin", "youxi", "entertainment", "video",
                "gaming"} -> "yule"

\* lines 200-201: category_map.get(category_str.lower().strip(), "qita")
parse_category(x) ==
    LET normalized == Strip(Lower(x))
    IN  IF normalized = Plain(normalized.word)
           /\ normalized.word \in ChineseKeys \cup EnglishKeys
        THEN Plain(category_map(normalized.word))
        ELSE Plain("qita")

CategoryCall ==
    /\ call = NoResult
    /\ \E x \in Strings :
         call' = [fn |-> "parse_category", x |-> x, res |-> parse_category(x),
                  again |-> parse_category(parse_category(x))]
    /\ UNCHANGED <<now, anaVars, recVars, cleanup, flush, sumVars>>

SpecCategory == InitQuery /\ [][CategoryCall]_vars

Canonical == {"gongzuo", "huiyi", "xiuxi", "xiaolv", "xuexi", "yule", "qita"}

\* C20: parse_category maps every string to one of the seven categories,
\* whatever its case and the blanks around it; a key of the table and a
\* category name map to a category, the names to themselves; any other
\* string maps to the category "other"; and parsing the result again gives
\* the result.
C20_CategoryTotalIdempotent ==
    call.fn = "parse_category" =>
       /\ call.res.word \in Canonical
       /\ call.res = Plain(call.res.word)
       /\ call.res = parse_category(Plain(call.x.word))
       /\ call.x.word \in Canonical => call.res.word = call.x.word
       /\ call.x.word \notin ChineseKeys \cup EnglishKeys
             => call.res.word = "qita"
       /\ call.x.word \in {"coding", "development"}
             => call.res.word = "gongzuo"
       /\ call.x.word \in {"research", "reading"} => call.res.word = "xuexi"
       /\ call.x.word \in {"gaming", "video"} => call.res.word = "yule"
       /\ call.again = call.res

\* a key written in upper case between blanks that reached its category
C20_Witness ==
    /\ call.fn = "parse_category"
    /\ call.x.upper /\ call.x.lead > 0 /\ call.x.trail > 0
    /\ call.x.word = "coding"
    /\ call.res.word = "gongzuo"

\* ============================ GeminiService: the array inside the response
\* A response text is a sequence of characters: "[" and "]", "e" for the text
\* of one JSON object, and "x" for any other character. Values of an array
\* follow each other (the commas are left out).
MaxText == 6

Chars == {"[", "]", "e", "x"}

Texts == UNION {[1..n -> Chars] : n \in 0..MaxText}

\* str.find: the index (from 0) of the first occurrence, -1 when none
Find(text, ch) ==
    IF \E i \in 1..Len(text) : text[i] = ch
    THEN (CHOOSE i \in 1..Len(text) :
             text[i] = ch /\ \A j \in 1..i - 1 : text[j] # ch) - 1
    ELSE -1

FindLast(text, ch) == Find(text, ch)

\* str.rfind: the index (from 0) of the last occurrence, -1 when none
RFind(text, ch) ==
    IF \E i \in 1..Len(text) : text[i] = ch
    THEN (CHOOSE i \in 1..Len(text) :
             text[i] = ch /\ \A j \in i + 1..Len(text) : text[j] # ch) - 1
    ELSE -1

\* text[a:b]
Slice(text, a, b) == SubSeq(text, a + 1, b)

\* the end of the array that opens at position i (0 when it is never closed)
RECURSIVE Closing(_, _, _)
Closing(text, i, depth) ==
    IF i > Len(text) THEN 0
    ELSE IF text[i] = "[" THEN Closing(text, i + 1, depth + 1)
    ELSE IF text[i] = "]"
         THEN (IF depth = 1 THEN i ELSE Closing(text, i + 1, depth - 1))
    ELSE Closing(text, i + 1, depth)

\* json: a run of values, each an object or an array of values
RECURSIVE IsValues(_)
IsValues(text) ==
    IF text = <<>> THEN TRUE
    ELSE IF text[1] = "e" THEN IsValues(Tail(text))
    ELSE IF text[1] = "["
         THEN LET m == Closing(text, 1, 0)
              IN  /\ m > 0
                  /\ IsValues(SubSeq(text, 2, m - 1))
                  /\ IsValues(SubSeq(text, m + 1, Len(text)))
    ELSE FALSE

\* json.loads succeeds on a text that is one array
IsArray(text) ==
    /\ text # <<>>
    /\ text[1] = "["
    /\ Closing(text, 1, 0) = Len(text)
    /\ IsValues(SubSeq(text, 2, Len(text) - 1))

\* the values of a run, in order
RECURSIVE Values(_)
Values(text) ==
    IF text = <<>> THEN <<>>
    ELSE IF text[1] = "e" THEN <<<<"e">>>> \o Values(Tail(text))
    ELSE LET m == Closing(text, 1, 0)
         IN  <<SubSeq(text, 1, m)>> \o Values(SubSeq(text, m + 1, Len(text)))

\* lines 180-189 and 233-236: activities_data, or the return of [] when
\* there is no array or json.loads raises JSONDecodeError
ExtractArray(text) ==
    LET json_start == Find(text, "[")
        json_end == RFind(text, "]") + 1
        json_str == Slice(text, json_start, json_end)
    IN  IF json_start = -1 \/ json_end = 0
        THEN [outcome |-> "no_array", data |-> <<>>]
        ELSE IF ~IsArray(json_str)
        THEN [outcome |-> "decode_error", data |-> <<>>]
        ELSE [outcome |-> "parsed",
              data |-> Values(SubSeq(json_str, 2, Len(json_str) - 1))]

ExtractCall ==
    /\ call = NoResult
    /\ \E text \in Texts :
         call' = [fn |-> "extract", text |-> text, res |-> ExtractArray(text)]
    /\ UNCHANGED <<now, anaVars, recVars, cleanup, flush, sumVars>>

SpecExtract == InitQuery /\ [][ExtractCall]_vars

Has(text, ch) == \E i \in 1..Len(text) : text[i] = ch

\* C19: only the text from the first "[" to the last "]" is parsed: an array
\* with prose before it (text without "[") and after it (text without "]")
\* is recovered with its values unchanged; a
\* text without "[" or without "]", or whose part from the first "[" to the
\* last "]" is no JSON array, gives the empty result, and nothing is raised.
C19_ArrayBetweenBrackets ==
    call.fn = "extract" =>
       LET text == call.text
           res == call.res
       IN  /\ \A i \in 1..Len(text) + 1, j \in 0..Len(text) :
                 (/\ i <= j
                  /\ ~Has(SubSeq(text, 1, i - 1), "[")
                  /\ ~Has(SubSeq(text, j + 1, Len(text)), "]")
                  /\ IsArray(SubSeq(text, i, j)))
                    => /\ res.outcome = "parsed"
                       /\ res.data = Values(SubSeq(text, i + 1, j - 1))
           /\ (~Has(text, "[") \/ ~Has(text, "]")) => res.data = <<>>
           /\ res.outcome # "parsed" => res.data = <<>>
           /\ res.outcome = "parsed" =>
                 \E i \in 1..Len(text), j \in 1..Len(text) :
                    /\ text[i] = "[" /\ text[j] = "]"
                    /\ ~Has(SubSeq(text, 1, i - 1), "[")
                    /\ ~Has(SubSeq(text, j + 1, Len(text)), "]")
                    /\ IsArray(SubSeq(text, i, j))

\* an array of two values recovered from between prose
C19_Witness ==
    /\ call.fn = "extract"
    /\ Len(call.text) > 0
    /\ call.text[1] = "x"
    /\ call.text[Len(call.text)] = "x"
    /\ call.res.outcome = "parsed"
    /\ Len(call.res.data) = 2

\* ========================== GeminiService: the elements of the response
\* The values json.loads can give for one field of an element: kind "missing"
\* when the key is absent, "num" for a number, "numstr" for a string holding
\* a number, "nan" for NaN, "text" for any other string, "null" for null.
MaxArray == 2

DefaultVideoDuration == 900

SecondsPerMinute == 60

Missing == [kind |-> "missing", num |-> 0]

Num(n) == [kind |-> "num", num |-> n]

StartFields ==
    {Missing, Num(1), [kind |-> "numstr", num |-> 1], [kind |-> "nan", num |-> 0],
     [kind |-> "text", num |-> 0]}

EndFields == {Missing, Num(2), [kind |-> "null", num |-> 0]}

NoText == [kind |-> "missing", text |-> ""]

Text(t) == [kind |-> "str", text |-> t]

TitleFields == {NoText, Text("t"), [kind |-> "null", text |-> ""]}

SummaryFields == {NoText, Text("s")}

NoCategory == [kind |-> "missing", str |-> Plain("other")]

CategoryFields ==
    {NoCategory, [kind |-> "str", str |-> Plain("coding")],
     [kind |-> "null", str |-> Plain("other")]}

\* an element that is no JSON object (a number, a string, null, an array)
Scalar ==
    [obj |-> FALSE, start |-> Missing, end |-> Missing, title |-> NoText,
     summary |-> NoText, category |-> NoCategory]

\* start and end stand for start_minutes and end_minutes in a video response
\* and for start_index and end_index in a frames response
RawElements ==
    [obj : {TRUE}, start : StartFields, end : EndFields, title : TitleFields,
     summary : SummaryFields, category : CategoryFields] \cup {Scalar}

RawArrays == UNION {[1..n -> RawElements] : n \in 0..MaxArray}

\* dict.get(key, default)
Get(field, default) == IF field.kind = "missing" THEN default ELSE field

\* float(v) and int(v) raise on a string that holds no number and on null;
\* int(NaN) raises, and timedelta(minutes=NaN) raises after float(NaN)
Converts(v) == v.kind \in {"num", "numstr"}

\* lines 223-225 and 280-282: title, summary and parse_category(category);
\* parse_category raises on a category that is no string
Described(raw) ==
    [title |-> Get(raw.title, Text("Untitled Activity")),
     summary |-> Get(raw.summary, Text("")),
     category |-> parse_category(
                     Get(raw.category,
                         [kind |-> "str",
                          str |-> [Plain("other") EXCEPT !.upper = TRUE]]).str)]

ParseActivityRequiringFields(raw, base, duration) ==
    IF \/ ~raw.obj
       \/ ~Converts(raw.start)
       \/ ~Converts(raw.end)
       \/ raw.category.kind = "null"
    THEN <<>>
    ELSE <<Segment([start_minutes |-> raw.start.num,
                    end_minutes |-> raw.end.num], base) @@ Described(raw)>>

\* lines 211-229: one turn of the loop of _parse_video_response, giving the
\* segments it appends (none when the turn raises)
ParseActivity(raw, base, duration) ==
    LET start_min == Get(raw.start, Num(0))
        end_min == Get(raw.end, Num(duration \div SecondsPerMinute))
    IN  IF \/ ~raw.obj
           \/ ~Converts(start_min)
           \/ ~Converts(end_min)
           \/ raw.category.kind = "null"
        THEN <<>>
        ELSE <<Segment([start_minutes |-> start_min.num,
                        end_minutes |-> end_min.num], base)
                 @@ Described(raw)>>

Min2(a, b) == IF a < b THEN a ELSE b

\* lines 265-287: one turn of the loop of _parse_frames_response
ParseFrameActivity(raw, timestamps) ==
    LET num_frames == Len(timestamps)
        start == Get(raw.start, Num(0))
        end == Get(raw.end, Num(num_frames - 1))
        start_idx == Max0(Min2(start.num, Len(timestamps) - 1))
        clamped == Min2(end.num, Len(timestamps) - 1)
        end_idx == IF clamped < start_idx THEN start_idx ELSE clamped
    IN  IF \/ ~raw.obj
           \/ ~Converts(start)
           \/ ~Converts(end)
           \/ raw.category.kind = "null"
        THEN <<>>
        ELSE <<[start_time |-> timestamps[start_idx + 1],
                end_time |-> timestamps[end_idx + 1]] @@ Described(raw)>>

\* the turn of either loop
Turn(mode, raw, base, duration, timestamps) ==
    IF mode = "video" THEN ParseActivity(raw, base, duration)
    ELSE ParseFrameActivity(raw, timestamps)

\* lines 209-231 and 263-289: the loop over activities_data
RECURSIVE ParseActivities(_, _, _, _, _)
ParseActivities(mode, data, base, duration, timestamps) ==
    IF data = <<>> THEN <<>>
    ELSE Turn(mode, Head(data), base, duration, timestamps)
           \o ParseActivities(mode, Tail(data), base, duration, timestamps)

\* what get_video_info and the caller of _parse_frames_response can give
Durations == {DefaultVideoDuration, 2 * SecondsPerMinute}

FrameTimestamps == <<10, 20, 30>>

ParseCall ==
    /\ call = NoResult
    /\ \E data \in RawArrays, mode \in {"video", "frames"} :
       \E duration \in IF mode = "video" THEN Durations
                       ELSE {DefaultVideoDuration} :
         LET base == BaseTime(ChunkPath(1), now)
         IN  call' = [fn |-> "parse", mode |-> mode, data |-> data,
                      base |-> base, duration |-> duration,
                      res |-> ParseActivities(mode, data, base, duration,
                                              FrameTimestamps)]
    /\ UNCHANGED <<now, anaVars, recVars, cleanup, flush, sumVars>>

SpecParse == InitQuery /\ [][ParseCall]_vars

\* an element with every field present and well-formed
Complete(raw) ==
    /\ raw.obj
    /\ Converts(raw.start)
    /\ Converts(raw.end)
    /\ raw.title.kind = "str"
    /\ raw.summary.kind = "str"
    /\ raw.category.kind = "str"

\* an element whose turn of the loop raises nothing
Yields(raw) ==
    /\ raw.obj
    /\ raw.start.kind \in {"missing", "num", "numstr"}
    /\ raw.end.kind \in {"missing", "num", "numstr"}
    /\ raw.category.kind \in {"missing", "str"}

\* the segment is the one of the element, missing fields taking the defaults
SegmentOf(seg, raw, c) ==
    /\ seg.title = (IF raw.title.kind = "missing" THEN Text("Untitled Activity")
                    ELSE raw.title)
    /\ seg.summary = (IF raw.summary.kind = "missing" THEN Text("")
                      ELSE raw.summary)
    /\ seg.category = (IF raw.category.kind = "missing" THEN Plain("qita")
                       ELSE Plain("gongzuo"))
    /\ c.mode = "video" =>
          /\ seg.start_time =
                c.base + (IF raw.start.kind = "missing" THEN 0 ELSE raw.start.num)
          /\ seg.end_time =
                c.base + (IF raw.end.kind = "missing"
                          THEN c.duration \div SecondsPerMinute
                          ELSE raw.end.num)
    /\ c.mode = "frames" =>
          /\ seg.start_time \in {FrameTimestamps[k] : k \in 1..Len(FrameTimestamps)}
          /\ seg.end_time \in {FrameTimestamps[k] : k \in 1..Len(FrameTimestamps)}
          /\ seg.start_time <= seg.end_time
          /\ raw.start.kind = "missing" => seg.start_time = FrameTimestamps[1]
          /\ raw.end.kind = "missing" =>
                seg.end_time = FrameTimestamps[Len(FrameTimestamps)]

\* C18 as stated: the result holds one segment per element whose fields are
\* all present and well-formed, in array order, and none for an element with
\* a missing or malformed field.
C18_SegmentPerCompleteElement ==
    call.fn = "parse" =>
       LET kept == SelectSeq(call.data, Complete)
       IN  /\ Len(call.res) = Len(kept)
           /\ \A k \in 1..Len(kept) : SegmentOf(call.res[k], kept[k], call)

\* C18 as the code has it: the result holds one segment, in array order, per
\* element that is an object whose start and end, when present, convert to a
\* number and whose category, when present, is a string; a missing field
\* takes its default, title and summary are taken as they are, and any other
\* element gives no segment and leaves the segments of the others as they
\* are.
C18_SegmentPerParsableElement ==
    call.fn = "parse" =>
       LET kept == SelectSeq(call.data, Yields)
       IN  /\ Len(call.res) = Len(kept)
           /\ \A k \in 1..Len(kept) : SegmentOf(call.res[k], kept[k], call)

\* a skipped element followed by an element with missing fields that gives a
\* segment
C18_Witness ==
    /\ call.fn = "parse"
    /\ Len(call.data) = 2
    /\ ~Yields(call.data[1])
    /\ Yields(call.data[2])
    /\ ~Complete(call.data[2])
    /\ Len(call.res) = 1

\* =================== AnalysisManager._process_activity around midnight
\* The periodic run in the minutes around the end of a day, with every
\* outcome of one call of _process_activity kept in `call': whether
\* get_timelapse_dir made its directory, what create_timelapse answered and
\* whether the commit went through.
MaxNight == 2

\* lines 236-281: get_timelapse_dir raises when mkdir fails, and the outer
\* except then ends the call with nothing written
ProcessActivityInDir(th, kind, dirOk, tlOk, dbOk) ==
    IF dirOk THEN ProcessActivity(th, kind, tlOk, dbOk)
    ELSE /\ Len(activities) < MaxRows
         /\ UNCHANGED <<disk, activities>>

JobProcessRecorded(th) ==
    /\ th \in JobThreads
    /\ runs[th].pc = "process"
    /\ \E dirOk \in BOOLEAN, tlOk \in BOOLEAN, dbOk \in BOOLEAN :
         /\ ProcessActivityInDir(th, "periodic", dirOk, tlOk, dbOk)
         /\ call' = [fn |-> "_process_activity", seg |-> Head(runs[th].acts),
                     dirOk |-> dirOk,
                     success |-> dirOk /\ TimelapseMade(Head(runs[th].acts),
                                                        runs[th].merged, tlOk),
                     dbOk |-> dbOk, before |-> activities]
    /\ runs' = [runs EXCEPT ![th].acts = Tail(@),
                            ![th].pc = IF Len(runs[th].acts) = 1
                                       THEN "unlink" ELSE "process"]
    /\ UNCHANGED <<cleanup, flush, sumVars, recVars, now, interval,
                   is_running, next_fire, dropped, starts, chunkRows, corrupt,
                   finished>>

TickNight ==
    /\ now < MinutesPerDay + MaxNight
    /\ next_fire = -1 \/ now < next_fire
    /\ now' = now + 1
    /\ UNCHANGED <<anaVars, recVars, otherVars>>

\* the application some minutes before midnight of day 0
InitNight ==
    /\ now = MinutesPerDay - MaxNight
    /\ interval \in Intervals
    /\ is_running = FALSE
    /\ next_fire = -1
    /\ dropped = 0
    /\ starts = 0
    /\ runs = [th \in Threads |-> IdleRun]
    /\ chunkRows = {}
    /\ disk = {}
    /\ corrupt = {}
    /\ activities = <<>>
    /\ finished = NoFinish
    /\ cfg = [chunk_duration |-> 5, frame_interval |-> 5]
    /\ RecConstructed
    /\ SumConstructed
    /\ StoreConstructed
    /\ call = NoResult

NextNight ==
    \/ Start(FALSE)
    \/ Trigger
    \/ JobCollect("sched")
    \/ JobMerge("sched")
    \/ JobAnalyze("sched")
    \/ JobProcessRecorded("sched")
    \/ JobUnlink("sched")
    \/ ChunkSaved
    \/ TickNight

SpecNight == InitNight /\ [][NextNight]_vars

\* strftime("%Y-%m-%d") of a time: its calendar date
DateOf(t) == t \div MinutesPerDay

DayChunk(s, e) == [start_time |-> s, end_time |-> e, file_path |-> ChunkPath(s)]

DayChunks ==
    {DayChunk(s, s + 2) :
        s \in {0, 1, 2, MinutesPerDay - 2, MinutesPerDay - 1, MinutesPerDay,
               MinutesPerDay + 1}}

\* lines 410-411 and 430: current_time from midnight in steps of the interval
\* while current_time < end_time
WindowStarts(start_time, end_time, step) ==
    {start_time + k * step : k \in 0..((end_time - start_time - 1) \div step)}

\* lines 397-430: the windows with chunks, each with its batch and the file
\* _merge_batch writes for it
AnalyzeDateWindows(date) ==
    LET start_time == date * MinutesPerDay
        end_time == start_time + MinutesPerDay
        chunks == get_chunks_in_range(start_time, end_time)
        starts_ == WindowStarts(start_time, end_time, interval)
        used == {w \in starts_ : BatchChunks(chunks, w, w + interval) # <<>>}
    IN  [w \in used |->
            [batch_end |-> w + interval,
             batch_chunks |-> BatchChunks(chunks, w, w + interval),
             output_path |-> BatchPath(w)]]

AnalyzeDateCall ==
    /\ call = NoResult
    /\ \E date \in {0, 1} :
         call' = [fn |-> "analyze_date", date |-> date,
                  starts |-> WindowStarts(date * MinutesPerDay,
                                          (date + 1) * MinutesPerDay, interval),
                  windows |-> AnalyzeDateWindows(date)]
    /\ UNCHANGED <<now, anaVars, recVars, cleanup, flush, sumVars>>

\* two days of recording are over
InitDay ==
    /\ now = 2 * MinutesPerDay
    /\ interval \in Intervals
    /\ is_running = FALSE
    /\ next_fire = -1
    /\ dropped = 0
    /\ starts = 0
    /\ runs = [th \in Threads |-> IdleRun]
    /\ chunkRows \in SUBSET DayChunks
    /\ disk = {c.file_path : c \in chunkRows}
    /\ corrupt = {}
    /\ activities = <<>>
    /\ finished = NoFinish
    /\ cfg = [chunk_duration |-> 5, frame_interval |-> 5]
    /\ RecConstructed
    /\ SumConstructed
    /\ StoreConstructed
    /\ call = NoResult

SpecDay == InitDay /\ [][AnalyzeDateCall]_vars

\* the windows that hold chunk c
WindowsOf(c) ==
    {w \in DOMAIN call.windows :
        \E i \in 1..Len(call.windows[w].batch_chunks) :
           call.windows[w].batch_chunks[i] = c}

\* C22: analyze_date(d) goes through contiguous windows of the interval's
\* length from midnight of d; every stored chunk of day d (a chunk whose
\* start_time is on d) is handed to exactly one window; and no two windows
\* write the same temporary merged file.
C22_EveryChunkInOneWindow ==
    call.fn = "analyze_date" =>
       /\ call.date * MinutesPerDay \in call.starts
       /\ \A w \in call.starts :
             /\ (w - call.date * MinutesPerDay) % interval = 0
             /\ w + interval < (call.date + 1) * MinutesPerDay
                   => w + interval \in call.starts
       /\ \A c \in chunkRows :
             DateOf(c.start_time) = call.date => Cardinality(WindowsOf(c)) = 1
       /\ \A v \in DOMAIN call.windows, w \in DOMAIN call.windows :
             v # w => call.windows[v].output_path # call.windows[w].output_path

\* ========================= AnalysisManager.analyze_date: the return value
\* analyze_date called while the activity table is empty and nothing else
\* writes to it, so that the rows in the table are the rows of the call
AnalyzeDateFresh ==
    /\ activities = <<>>
    /\ \E date \in {now \div MinutesPerDay} : AnalyzeDate(date)

NextCount ==
    \/ AnalyzeDateFresh
    \/ BackfillWindow
    \/ BackfillAnalyze
    \/ BackfillProcess
    \/ BackfillUnlink
    \/ ChunkSaved
    \/ TickAna

SpecCount == InitAna /\ [][NextCount]_vars

\* line 433: return activities_created, when the loop has no window left
AnalyzeDateReturns ==
    /\ runs["backfill"].pc = "bf_loop"
    /\ runs'["backfill"].pc = "idle"

\* C23: the value analyze_date returns is the number of TimelineActivity
\* rows the call created, whatever the outcome of each commit and of each
\* window.
C23_ReturnsRowsCreated ==
    [][AnalyzeDateReturns => runs["backfill"].created = Len(activities')]_vars

\* ================== DailySummaryService._calculate_statistics
\* An activity is its duration in seconds (end_time - start_time, negative
\* when the backend gave the offsets the wrong way round) and the name of
\* its category, Null when it has none. duration_minutes is seconds / 60.
MaxActs == 3

CategoryNames == {"Work", "Meeting", "xuexi", Null}

TimedActivities == [seconds : {30, 90, -60}, category : CategoryNames]

ActivityLists == UNION {[1..n -> TimedActivities] : n \in 0..MaxActs}

\* int(x / 60): towards zero
IntMinutes(seconds) ==
    IF seconds >= 0 THEN seconds \div SecondsPerMinute
    ELSE -((-seconds) \div SecondsPerMinute)

RECURSIVE SumSeconds(_)
SumSeconds(acts) ==
    IF acts = <<>> THEN 0 ELSE Head(acts).seconds + SumSeconds(Tail(acts))

\* theme.py lines 255-261; gongzuo, xiaolv, xuexi are the Chinese names
is_productive_category(category_name) ==
    category_name \in {"gongzuo", "xiaolv", "xuexi",
                       "Work", "Productivity", "Learning"}

\* lines 179-182: category_time, a dict, as the sequence of its items in
\* insertion order
RECURSIVE category_time(_)
category_time(acts) ==
    IF acts = <<>> THEN <<>>
    ELSE LET before == category_time(SubSeq(acts, 1, Len(acts) - 1))
             a == acts[Len(acts)]
             at == {i \in 1..Len(before) : before[i].name = a.category}
         IN  IF a.category = Null THEN before
             ELSE IF at = {}
             THEN Append(before, [name |-> a.category, seconds |-> a.seconds])
             ELSE [i \in 1..Len(before) |->
                     IF i \in at
                     THEN [before[i] EXCEPT !.seconds = @ + a.seconds]
                     ELSE before[i]]

MaxItemTakingLast(items) ==
    items[CHOOSE i \in 1..Len(items) :
             /\ \A j \in 1..Len(items) : items[j].seconds <= items[i].seconds
             /\ \A j \in i + 1..Len(items) :
                   items[j].seconds < items[i].seconds]

\* max(items, key=...): the first of the largest items
MaxItem(items) ==
    items[CHOOSE i \in 1..Len(items) :
             /\ \A j \in 1..Len(items) : items[j].seconds <= items[i].seconds
             /\ \A j \in 1..i - 1 : items[j].seconds < items[i].seconds]

\* lines 166-194
_calculate_statistics(acts) ==
    LET productive_activities ==
            SelectSeq(acts, LAMBDA a : /\ a.category # Null
                                       /\ is_productive_category(a.category))
        items == category_time(acts)
    IN  [total_minutes |-> IntMinutes(SumSeconds(acts)),
         productive_minutes |-> IntMinutes(SumSeconds(productive_activities)),
         activity_count |-> Len(acts),
         top_category |-> IF items = <<>> THEN Null ELSE MaxItem(items).name]

StatisticsCall ==
    /\ call = NoResult
    /\ \E acts \in ActivityLists :
         call' = [fn |-> "_calculate_statistics", acts |-> acts,
                  stats |-> _calculate_statistics(acts)]
    /\ UNCHANGED <<now, anaVars, recVars, cleanup, flush, sumVars>>

SpecStatistics == InitQuery /\ [][StatisticsCall]_vars

\* the seconds of the activities of a list whose category is in S
RECURSIVE SecondsIn(_, _)
SecondsIn(acts, S) ==
    IF acts = <<>> THEN 0
    ELSE (IF Head(acts).category \in S THEN Head(acts).seconds ELSE 0)
           + SecondsIn(Tail(acts), S)

FirstAt(acts, c) == Min({i \in 1..Len(acts) : acts[i].category = c})

\* C26: total_minutes is the sum of the durations of all activities and
\* productive_minutes the sum over the activities in the Work, Productivity
\* and Learning categories (under their English or Chinese names), each in
\* whole minutes; top_category is the category with the largest summed time,
\* the one met first in the list when several have the largest.
C26_StatisticsOfTheDay ==
    call.fn = "_calculate_statistics" =>
       LET acts == call.acts
           named == {acts[i].category : i \in 1..Len(acts)} \ {Null}
           top == call.stats.top_category
       IN  /\ call.stats.total_minutes =
                 IntMinutes(SecondsIn(acts, CategoryNames))
           /\ call.stats.productive_minutes =
                 IntMinutes(SecondsIn(acts, {"Work", "Productivity", "Learning",
                                             "gongzuo", "xiaolv", "xuexi"}))
           /\ named = {} => top = Null
           /\ named # {} =>
                 /\ top \in named
                 /\ \A c \in named :
                       \/ SecondsIn(acts, {c}) < SecondsIn(acts, {top})
                       \/ /\ SecondsIn(acts, {c}) = SecondsIn(acts, {top})
                          /\ FirstAt(acts, top) <= FirstAt(acts, c)

\* two categories with the same, largest, time and an activity without one
C26_Witness ==
    /\ call.fn = "_calculate_statistics"
    /\ Len(call.acts) = 3
    /\ call.acts[1].category = "Meeting"
    /\ call.acts[2].category = "Work"
    /\ call.acts[3].category = Null
    /\ call.acts[1].seconds = call.acts[2].seconds
    /\ call.acts[1].seconds > 0
    /\ call.stats.top_category = "Meeting"

\* ============================ DailySummaryService: the rows of the table
\* generate_summary and save_user_notes, called on the scheduler's thread
\* (the daily job) and on the user interface's thread, each in the steps
\* that touch the database: the queries, the model call, the commit.
MaxSumCalls == 2

MaxSumClock == 1

\* "今天没有记录到活动。"
Placeholder == "no activity was recorded today"

NotesArgs == {Null, "", "notes"}

\* the activities of the days under study: none, or one on day 0
SummaryActivities ==
    {<<>>, <<[start_time |-> 10, end_time |-> 40, category |-> "Work"]>>}

\* DailySummary(date=..., ...): the columns not given are None
NewSummary(date, fields) ==
    LET blank == [date |-> date, ai_summary |-> Null, user_notes |-> Null,
                  total_minutes |-> NoInt, productive_minutes |-> NoInt,
                  activity_count |-> NoInt, top_category |-> Null,
                  updated_at |-> now]
    IN  [f \in DOMAIN blank |-> IF f \in DOMAIN fields THEN fields[f]
                                ELSE blank[f]]

\* the attributes assigned to a row, and onupdate of updated_at
Assigned(row, fields) ==
    [f \in DOMAIN row |-> IF f \in DOMAIN fields THEN fields[f]
                          ELSE IF f = "updated_at" THEN now
                          ELSE row[f]]

\* .filter(DailySummary.date == day_start.date()).first(): its id, 0 for None
FirstSummary(date) ==
    IF \E i \in 1..Len(daily_summaries) : daily_summaries[i].date = date
    THEN Min({i \in 1..Len(daily_summaries) : daily_summaries[i].date = date})
    ELSE 0

\* lines 90-99: the activities that start on the date, by start_time
ActivitiesOn(date) ==
    LET rows == SortByStart({activities[i] : i \in
                   {j \in 1..Len(activities) :
                       DateOf(activities[j].start_time) = date}})
    IN  [i \in 1..Len(rows) |->
            [seconds |-> (rows[i].end_time - rows[i].start_time)
                            * SecondsPerMinute,
             category |-> rows[i].category]]

\* if user_notes:
Truthy(text) == text \notin {Null, ""}

\* the return, through finally: session.close(); the locals stay readable
\* until the next call of the thread
SumReturn(th, ret) ==
    [sum_runs[th] EXCEPT !.pc = "idle", !.ret = ret, !.session = FALSE]

\* the call, up to its first query: session = get_session_direct() (lines 68
\* and 303); generate_summary returns None at once when the service has no
\* model (lines 65-67). The scheduler's thread runs
\* _generate_daily_summary: generate_summary(date, force_regenerate=False).
SumBegin(th) ==
    /\ sum_runs[th].pc = "idle"
    /\ sum_runs[th].calls < MaxSumCalls
    /\ \E op \in {"generate_summary", "save_user_notes"}, date \in Dates,
          user_notes \in NotesArgs, force \in BOOLEAN :
         /\ op = "save_user_notes" => ~force /\ user_notes # Null
         /\ th = "job" => op = "generate_summary" /\ user_notes = Null /\ ~force
         /\ LET r == [IdleSum EXCEPT !.op = op, !.date = date,
                                     !.user_notes = user_notes,
                                     !.force_regenerate = force,
                                     !.calls = sum_runs[th].calls + 1]
            IN  sum_runs' = [sum_runs EXCEPT ![th] =
                   IF op = "generate_summary" /\ ~summary_mgr.llm_service
                   THEN [r EXCEPT !.ret = "None"]
                   ELSE [r EXCEPT !.pc = "query", !.session = TRUE]]
    /\ UNCHANGED <<now, anaVars, recVars, cleanup, flush, call,
                   daily_summaries, model_calls, summary_mgr>>

\* save_user_notes, lines 305-320: what the commit will write
SaveNotesQuery(th) ==
    LET r == sum_runs[th]
        summary == FirstSummary(r.date)
    IN  [r EXCEPT !.pc = "commit", !.existing = summary,
                  !.pending =
                     IF summary # 0
                     THEN [kind |-> "update", id |-> summary,
                           fields |-> [user_notes |-> r.user_notes]]
                     ELSE [kind |-> "insert", id |-> 0,
                           fields |-> [user_notes |-> r.user_notes]]]

\* generate_summary, lines 74-124: the queries and what follows from them
GenerateQueryForcing(th) ==
    LET r == sum_runs[th]
        existing_summary == FirstSummary(r.date)
        acts == ActivitiesOn(r.date)
        empty == [user_notes |-> r.user_notes, ai_summary |-> Placeholder,
                  activity_count |-> 0, total_minutes |-> 0,
                  productive_minutes |-> 0]
    IN  IF acts = <<>>
        THEN [r EXCEPT !.pc = "commit", !.existing = existing_summary,
                       !.pending =
                          [kind |-> IF existing_summary # 0 THEN "update"
                                    ELSE "insert",
                           id |-> existing_summary, fields |-> empty]]
        ELSE [r EXCEPT !.pc = "model", !.existing = existing_summary]

GenerateQuery(th) ==
    LET r == sum_runs[th]
        existing_summary == FirstSummary(r.date)
        acts == ActivitiesOn(r.date)
        empty == [user_notes |-> r.user_notes, ai_summary |-> Placeholder,
                  activity_count |-> 0, total_minutes |-> 0,
                  productive_minutes |-> 0]
    IN  IF existing_summary # 0 /\ ~r.force_regenerate
        THEN [r EXCEPT !.pc = "commit", !.existing = existing_summary,
                       !.pending =
                          IF Truthy(r.user_notes)
                          THEN [kind |-> "update", id |-> existing_summary,
                                fields |-> [user_notes |-> r.user_notes]]
                          ELSE NoPending]
        ELSE IF acts = <<>>
        THEN [r EXCEPT !.pc = "commit", !.existing = existing_summary,
                       !.pending =
                          [kind |-> IF existing_summary # 0 THEN "update"
                                    ELSE "insert",
                           id |-> existing_summary, fields |-> empty]]
        ELSE [r EXCEPT !.pc = "model", !.existing = existing_summary]

SumQuery(th) ==
    /\ sum_runs[th].pc = "query"
    /\ sum_runs' = [sum_runs EXCEPT ![th] =
                       IF sum_runs[th].op = "generate_summary"
                       THEN GenerateQuery(th) ELSE SaveNotesQuery(th)]
    /\ UNCHANGED <<now, anaVars, recVars, cleanup, flush, call,
                   daily_summaries, model_calls, summary_mgr>>

\* lines 126-154: the statistics, _generate_ai_summary (the text of the
\* model, or the text of the error when generate_content raises) and the
\* row to write
SumModel(th) ==
    /\ sum_runs[th].pc = "model"
    /\ \E ai_summary \in {"summary of the day", "error calling the model"} :
         LET r == sum_runs[th]
             stats == _calculate_statistics(ActivitiesOn(r.date))
             fields == [ai_summary |-> ai_summary,
                        user_notes |-> r.user_notes,
                        total_minutes |-> stats.total_minutes,
                        productive_minutes |-> stats.productive_minutes,
                        activity_count |-> stats.activity_count,
                        top_category |-> stats.top_category]
         IN  sum_runs' = [sum_runs EXCEPT ![th] =
                [r EXCEPT !.pc = "commit", !.asked = @ + 1,
                          !.pending = [kind |-> IF r.existing # 0 THEN "update"
                                                ELSE "insert",
                                       id |-> r.existing, fields |-> fields]]]
    /\ model_calls' = [model_calls EXCEPT ![sum_runs[th].date] = @ + 1]
    /\ UNCHANGED <<now, anaVars, recVars, cleanup, flush, call,
                   daily_summaries, summary_mgr>>

DateIsFreeUnchecked(date) == TRUE

\* the unique index on daily_summaries.date (daily_summary.py line 13)
DateIsFree(date) == FirstSummary(date) = 0

\* session.commit() and the return; the commit of a new row raises when a
\* row of the date exists (date is unique), and any commit may fail; the
\* except clause rolls back and the call returns None (False)
SumCommit(th) ==
    /\ sum_runs[th].pc = "commit"
    /\ LET r == sum_runs[th]
           w == r.pending
       IN  IF w.kind = "none"
           THEN /\ daily_summaries' = daily_summaries
                /\ sum_runs' = [sum_runs EXCEPT ![th] = SumReturn(th, "row")]
           ELSE \E commitOk \in BOOLEAN :
                  LET done == /\ commitOk
                              /\ w.kind = "insert" => DateIsFree(r.date)
                  IN  /\ daily_summaries' =
                            IF ~done THEN daily_summaries
                            ELSE IF w.kind = "insert"
                            THEN Append(daily_summaries,
                                        NewSummary(r.date, w.fields))
                            ELSE [daily_summaries EXCEPT ![w.id] =
                                     Assigned(@, w.fields)]
                      /\ sum_runs' = [sum_runs EXCEPT ![th] =
                            SumReturn(th, IF done THEN "row" ELSE "None")]
    /\ UNCHANGED <<now, anaVars, recVars, cleanup, flush, call,
                   model_calls, summary_mgr>>

TickSum ==
    /\ now < MaxSumClock
    /\ now' = now + 1
    /\ UNCHANGED <<anaVars, recVars, otherVars>>

InitSummary ==
    /\ now = 0
    /\ interval = 2
    /\ is_running = FALSE
    /\ next_fire = -1
    /\ dropped = 0
    /\ starts = 0
    /\ runs = [th \in Threads |-> IdleRun]
    /\ chunkRows = {}
    /\ disk = {}
    /\ corrupt = {}
    /\ activities \in SummaryActivities
    /\ finished = NoFinish
    /\ cfg = [chunk_duration |-> 5, frame_interval |-> 5]
    /\ RecConstructed
    /\ StoreConstructed
    /\ call = NoResult
    /\ daily_summaries = <<>>
    /\ sum_runs = [th \in SumThreads |-> IdleSum]
    /\ model_calls = [d \in Dates |-> 0]
    /\ \E llm_service \in BOOLEAN :
         summary_mgr = [is_running |-> FALSE, job |-> NoJob,
                        llm_service |-> llm_service,
                        auto_daily_summary |-> TRUE,
                        daily_summary_time |-> DefaultSummaryTime]

NextSummary ==
    \/ \E th \in SumThreads : SumBegin(th)
    \/ \E th \in SumThreads : SumQuery(th)
    \/ \E th \in SumThreads : SumModel(th)
    \/ \E th \in SumThreads : SumCommit(th)
    \/ TickSum

SpecSummary == InitSummary /\ [][NextSummary]_vars

\* a step of thread th inside a call of generate_summary that found a summary
\* of the date and was not told to regenerate
UnforcedStep(th) ==
    /\ sum_runs[th].op = "generate_summary"
    /\ sum_runs[th].pc \in {"model", "commit"}
    /\ sum_runs[th].existing # 0
    /\ ~sum_runs[th].force_regenerate
    /\ sum_runs'[th] # sum_runs[th]

SameBut(row, other, columns) ==
    \A f \in DOMAIN row : f \notin columns => row[f] = other[f]

\* C24: a call of generate_summary that finds a summary of the date and is
\* not forced makes no model call and returns after at most one commit,
\* which adds no row and changes no column other than user_notes (with the
\* updated_at stamp) of that summary, and that only when notes were given.
C24_ExistingSummaryKept ==
    [][\A th \in SumThreads : UnforcedStep(th) =>
          LET r == sum_runs[th]
          IN  /\ sum_runs'[th].pc = "idle"
              /\ r.asked = 0
              /\ model_calls' = model_calls
              /\ Len(daily_summaries') = Len(daily_summaries)
              /\ \A i \in 1..Len(daily_summaries) :
                    IF i = r.existing /\ Truthy(r.user_notes)
                    THEN /\ SameBut(daily_summaries'[i], daily_summaries[i],
                                    {"user_notes", "updated_at"})
                         /\ daily_summaries'[i].user_notes
                               \in {r.user_notes, daily_summaries[i].user_notes}
                    ELSE daily_summaries'[i] = daily_summaries[i]]_vars

\* notes written, without regenerating, to a summary that has a text
C24_Witness ==
    \E th \in SumThreads :
       LET r == sum_runs[th]
       IN  /\ r.pc = "idle"
           /\ r.op = "generate_summary"
           /\ r.ret = "row"
           /\ r.existing # 0
           /\ ~r.force_regenerate
           /\ r.pending.kind = "update"
           /\ daily_summaries[r.existing].user_notes = "notes"
           /\ daily_summaries[r.existing].ai_summary = "summary of the day"

\* C25: the table never holds two rows of one date, whatever calls of
\* generate_summary and save_user_notes ran and however they interleaved;
\* for a date without activities no model call is made, and a row that
\* generate_summary wrote for it holds the placeholder text and zero counts.
C25_OneRowPerDate ==
    /\ \A i \in 1..Len(daily_summaries), j \in 1..Len(daily_summaries) :
          daily_summaries[i].date = daily_summaries[j].date => i = j
    /\ \A d \in Dates :
          ActivitiesOn(d) = <<>> =>
             /\ model_calls[d] = 0
             /\ \A i \in 1..Len(daily_summaries) :
                   (/\ daily_summaries[i].date = d
                    /\ daily_summaries[i].ai_summary # Null)
                      => /\ daily_summaries[i].ai_summary = Placeholder
                         /\ daily_summaries[i].activity_count = 0
                         /\ daily_summaries[i].total_minutes = 0

\* both threads have generated the summary of a date without activities,
\* and the table holds one row of the date
C25_Witness ==
    /\ \A th \in SumThreads :
          /\ sum_runs[th].pc = "idle"
          /\ sum_runs[th].op = "generate_summary"
          /\ sum_runs[th].date = 1
          /\ sum_runs[th].ret = "row"
    /\ sum_runs["ui"].calls = 2
    /\ Len(daily_summaries) = 1
    /\ daily_summaries[1].date = 1
    /\ daily_summaries[1].ai_summary = Placeholder

\* ======================================= DailySummaryManager: the schedule
\* start(), stop() and reschedule(new_time) of the manager, and the job it
\* schedules, which runs generate_summary on the scheduler's thread.
TimeArgs == {<<8, 30>>, <<22, 0>>, <<25, 0>>, <<8>>, <<-1, 0>>}

\* hour, minute = map(int, text.split(":")) raises unless the text has two
\* fields, both numbers
Parses(text) == Len(text) = 2 /\ text[1] # -1 /\ text[2] # -1

\* CronTrigger(hour=hour, minute=minute) raises on a value out of range
IsCronTime(text) == text[1] \in 0..23 /\ text[2] \in 0..59

\* start(), lines 32-65: the manager after the call
Started(mgr) ==
    IF mgr.is_running \/ ~mgr.auto_daily_summary THEN mgr
    ELSE IF Parses(mgr.daily_summary_time)
            /\ IsCronTime(mgr.daily_summary_time)
    THEN [mgr EXCEPT !.job = mgr.daily_summary_time, !.is_running = TRUE]
    ELSE mgr

\* reschedule(new_time), lines 122-159: the return value and the manager
\* after the call
Rescheduled(mgr, new_time) ==
    IF ~Parses(new_time) THEN [ret |-> FALSE, mgr |-> mgr]
    ELSE IF ~mgr.is_running THEN [ret |-> TRUE, mgr |-> Started(mgr)]
    ELSE IF ~IsCronTime(new_time)
    THEN [ret |-> FALSE, mgr |-> [mgr EXCEPT !.job = NoJob]]
    ELSE [ret |-> TRUE, mgr |-> [mgr EXCEPT !.job = new_time]]

mgrOnly == <<now, anaVars, recVars, cleanup, flush, daily_summaries,
             sum_runs, model_calls>>

MgrStart ==
    /\ summary_mgr' = Started(summary_mgr)
    /\ call' = [fn |-> "start", new_time |-> NoJob, ret |-> TRUE,
                was_running |-> summary_mgr.is_running]
    /\ UNCHANGED mgrOnly

\* stop(), lines 67-77: shutdown(wait=True) waits for the job that runs and
\* empties the job store
MgrStop ==
    /\ sum_runs["job"].pc = "idle"
    /\ summary_mgr' = IF summary_mgr.is_running
                      THEN [summary_mgr EXCEPT !.is_running = FALSE,
                                               !.job = NoJob]
                      ELSE summary_mgr
    /\ call' = [fn |-> "stop", new_time |-> NoJob, ret |-> TRUE,
                was_running |-> summary_mgr.is_running]
    /\ UNCHANGED mgrOnly

MgrReschedule ==
    /\ \E new_time \in TimeArgs :
         /\ summary_mgr' = Rescheduled(summary_mgr, new_time).mgr
         /\ call' = [fn |-> "reschedule", new_time |-> new_time,
                     ret |-> Rescheduled(summary_mgr, new_time).ret,
                     was_running |-> summary_mgr.is_running]
    /\ UNCHANGED mgrOnly

\* the trigger of the job fires: _generate_daily_summary, lines 79-96
MgrFire ==
    /\ summary_mgr.is_running
    /\ summary_mgr.job # NoJob
    /\ SumBegin("job")

InitManager ==
    /\ now = 0
    /\ interval = 2
    /\ is_running = FALSE
    /\ next_fire = -1
    /\ dropped = 0
    /\ starts = 0
    /\ runs = [th \in Threads |-> IdleRun]
    /\ chunkRows = {}
    /\ disk = {}
    /\ corrupt = {}
    /\ activities \in SummaryActivities
    /\ finished = NoFinish
    /\ cfg = [chunk_duration |-> 5, frame_interval |-> 5]
    /\ RecConstructed
    /\ StoreConstructed
    /\ call = NoResult
    /\ daily_summaries = <<>>
    /\ sum_runs = [th \in SumThreads |-> IdleSum]
    /\ model_calls = [d \in Dates |-> 0]
    /\ \E auto \in BOOLEAN, time \in {DefaultSummaryTime, <<8, 30>>} :
         summary_mgr = [is_running |-> FALSE, job |-> NoJob,
                        llm_service |-> TRUE, auto_daily_summary |-> auto,
                        daily_summary_time |-> time]

NextManager ==
    \/ MgrStart
    \/ MgrStop
    \/ MgrReschedule
    \/ MgrFire
    \/ SumQuery("job")
    \/ SumModel("job")
    \/ SumCommit("job")

SpecManager == InitManager /\ [][NextManager]_vars

\* C27: when reschedule(t) has returned true the manager holds its one job,
\* with the trigger at t, whether or not it was running before the call;
\* and a call of reschedule changes no row of daily_summaries.
C27_RescheduledJobFiresAtT ==
    [][(call' # call /\ call'.fn = "reschedule") =>
          /\ daily_summaries' = daily_summaries
          /\ call'.ret => summary_mgr'.job = call'.new_time]_vars

\* ======================= retention cleanup beside the periodic batch run
\* cleanup_old_recordings (the hourly timer of main.py) and _analysis_job
\* (the scheduler's thread) on one table and one disk. One unit of `now' is
\* one minute. The settings dialog keeps retention_days within 1..30 and
\* the interval within 5..60 minutes, so the interval is far below a day.
MaxRetainTime == 3

CutoffMinutesWithoutRetention(t, n) == t

\* storage.py line 150: datetime.now() - timedelta(days=retention_days)
CutoffMinutes(t, n) == t - n * MinutesPerDay

\* cleanup_old_recordings, lines 150-163
CleanupBeginMinutes ==
    /\ cleanup.pc = "idle"
    /\ LET cutoff == CutoffMinutes(now, cleanup.retention_days)
       IN  cleanup' = [IdleCleanup(cleanup.retention_days) EXCEPT
                          !.pc = "loop", !.cutoff = cutoff,
                          !.todo = OldChunks(chunkRows, cutoff),
                          !.before = chunkRows, !.beforeDisk = disk]
    /\ UNCHANGED <<now, chunkRows, disk, flush, storeOnly>>

TickRetain ==
    /\ now < MinutesPerDay + MaxRetainTime
    /\ next_fire = -1 \/ now < next_fire
    /\ now' = now + 1
    /\ UNCHANGED <<anaVars, recVars, otherVars>>

\* a day after the first chunks were recorded, retention one day
InitRetain ==
    /\ now = MinutesPerDay
    /\ interval \in Intervals
    /\ is_running = FALSE
    /\ next_fire = -1
    /\ dropped = 0
    /\ starts = 0
    /\ runs = [th \in Threads |-> IdleRun]
    /\ chunkRows = {DayChunk(0, 1), DayChunk(1, 2)}
    /\ disk = {c.file_path : c \in chunkRows}
    /\ corrupt = {}
    /\ activities = <<>>
    /\ finished = NoFinish
    /\ cfg = [chunk_duration |-> 5, frame_interval |-> 5]
    /\ RecConstructed
    /\ SumConstructed
    /\ cleanup = IdleCleanup(1)
    /\ flush = NoFlush
    /\ call = NoResult

NextRetain ==
    \/ Start(FALSE)
    \/ Trigger
    \/ JobCollect("sched")
    \/ JobMerge("sched")
    \/ JobAnalyze("sched")
    \/ JobProcess("sched")
    \/ JobUnlink("sched")
    \/ ChunkSaved
    \/ CleanupBeginMinutes
    \/ CleanupChunk
    \/ CleanupCommit
    \/ TickRetain

SpecRetain == InitRetain /\ [][NextRetain]_vars

\* the chunks a periodic run in progress has selected and not yet merged
Selected == UNION {SeqToSet(runs[th].chunks) : th \in JobThreads}

\* the chunks the cleanup in progress, or the last one, took for old
TakenForOld == cleanup.todo \cup cleanup.deleted \cup cleanup.failed

MaxMidnight == 4

\* storage.py lines 52-53: recordings_dir / <date %Y-%m-%d> / "chunks"
get_chunks_dir(date) == <<"recordings", date, "chunks">>

TickMidnight ==
    /\ now < SecondsPerDay + MaxMidnight
    /\ \A th \in LoopIds :
          /\ loops[th].pc = "sleep" => now < loops[th].wake
          /\ loops[th].pc \in {"saving", "finalsave"}
                => now - loops[th].chunk_end_time < MaxSaveTime
    /\ ctl.pc = "joining"
          => now < ctl.deadline /\ loops[recording_thread].pc # "done"
    /\ now' = now + 1
    /\ loops' = [th \in LoopIds |->
                    IF is_recording /\ is_paused /\ loops[th].pc = "sleep"
                    THEN [loops[th] EXCEPT !.paused = @ + 1]
                    ELSE loops[th]]
    /\ UNCHANGED <<cfg, calls, is_recording, is_paused, recording_thread, ctl,
                   notified, overwrites, lastCall, lastStop, chunkRows, disk,
                   anaOnly, otherVars>>

InitMidnight ==
    /\ now = SecondsPerDay - MaxMidnight
    /\ OutputDir = get_chunks_dir(now \div SecondsPerDay)
    /\ cfg \in Configs
    /\ RecConstructed
    /\ SumConstructed
    /\ StoreConstructed
    /\ call = NoResult
    /\ interval = 2
    /\ is_running = FALSE
    /\ next_fire = -1
    /\ dropped = 0
    /\ starts = 0
    /\ runs = [th \in Threads |-> IdleRun]
    /\ chunkRows = {}
    /\ disk = {}
    /\ corrupt = {}
    /\ activities = <<>>
    /\ finished = NoFinish

NextMidnight ==
    \/ RStart
    \/ RStop
    \/ RStopReturn
    \/ RPause
    \/ RResume
    \/ \E th \in LoopIds : LoopIter(th)
    \/ \E th \in LoopIds : LoopSave(th)
    \/ \E th \in LoopIds : LoopFinalSave(th)
    \/ TickMidnight

SpecMidnight == InitMidnight /\ [][NextMidnight]_vars

\* C29: every chunk file written lies in the chunks folder of the calendar
\* date of the chunk's start_time.
C29_ChunkUnderDateOfStart ==
    \A i \in 1..Len(notified) :
        notified[i].path.dir
            = get_chunks_dir(notified[i].start_time \div SecondsPerDay)

\* ============================== VideoProcessor.get_video_info, frame rate
\* video_processor.py line 247: "fps": eval(<r_frame_rate of the stream>).
\* The text is a sequence of tokens as Python's tokenizer splits it: whole
\* numbers, "/", a name that is not defined, and a call with an effect.
MaxTokens == 5

RateNumbers == {"0", "2", "30"}

\* the number a literal denotes
NumberOf(tok) == CASE tok = "0" -> 0 [] tok = "2" -> 2 [] tok = "30" -> 30

Slash == "/"

UndefinedName == "invalid"

SystemCall == "__import__('os').system('echo hacked')"

RateTokens == RateNumbers \cup {Slash, UndefinedName, SystemCall}

RateTexts == UNION {[1..n -> RateTokens] : n \in 0..MaxTokens}

\* a value n/d of Python's true division, kept as the pair of its terms
Fraction(n, d) == [num |-> n, den |-> d]

Raised(executed) == [raised |-> TRUE, value |-> Fraction(0, 1), executed |-> executed]

\* eval of one operand: a number literal, a NameError, or the call, which
\* runs the command and yields its exit status 0
Operand(tok) ==
    IF tok \in RateNumbers
    THEN [raised |-> FALSE, value |-> Fraction(NumberOf(tok), 1), executed |-> FALSE]
    ELSE IF tok = SystemCall
    THEN [raised |-> FALSE, value |-> Fraction(0, 1), executed |-> TRUE]
    ELSE Raised(FALSE)

\* the texts Python compiles: operand ("/" operand)*
Compiles(text) ==
    /\ Len(text) % 2 = 1
    /\ \A i \in 1..Len(text) : (i % 2 = 0) <=> (text[i] = Slash)

\* a / b / c is (a / b) / c, operands evaluated left to right,
\* ZeroDivisionError on a zero divisor
RECURSIVE EvalOperands(_, _)
EvalOperands(text, k) ==
    IF k = 1 THEN Operand(text[1])
    ELSE LET l == EvalOperands(text, k - 1)
             r == Operand(text[2 * k - 1])
         IN  IF l.raised THEN l
             ELSE IF r.raised THEN Raised(l.executed)
             ELSE IF r.value.num = 0 THEN Raised(l.executed \/ r.executed)
             ELSE [raised |-> FALSE,
                   value |-> Fraction(l.value.num * r.value.den,
                                      l.value.den * r.value.num),
                   executed |-> l.executed \/ r.executed]

\* eval(text): SyntaxError before anything runs, else the value
Eval(text) ==
    IF Compiles(text) THEN EvalOperands(text, (Len(text) + 1) \div 2)
    ELSE Raised(FALSE)

EmptyDict == [empty |-> TRUE, fps |-> Fraction(0, 1)]

\* get_video_info, lines 243-256, for a probe with one video stream whose
\* r_frame_rate is the text: any exception of eval gives {}
get_video_info(text) ==
    LET e == Eval(text)
    IN  [fn |-> "get_video_info", text |-> text,
         res |-> IF e.raised THEN EmptyDict
                ELSE [empty |-> FALSE, fps |-> e.value],
         executed |-> e.executed]

VideoInfoCall ==
    /\ call = NoResult
    /\ \E text \in RateTexts : call' = get_video_info(text)
    /\ UNCHANGED <<now, anaVars, recVars, cleanup, flush, sumVars>>

SpecVideoInfo == InitQuery /\ [][VideoInfoCall]_vars

\* the frame rate the claim gives a text
IsRate(res, n, d) == ~res.empty /\ res.fps.num * d = n * res.fps.den

\* C30: the frame rate is n/d for 'n/d', the number for a plain number, and
\* 0.0 for an empty text, a zero denominator, more than one '/' or
\* non-numeric text, without raising and without running the text as code.
C30_FrameRateParsedSafely ==
    call.fn = "get_video_info" =>
       LET t == call.text
           fps == call.res
       IN  /\ ~call.executed
           /\ IF Len(t) = 1 /\ t[1] \in RateNumbers
              THEN IsRate(fps, NumberOf(t[1]), 1)
              ELSE IF /\ Len(t) = 3 /\ t[2] = Slash
                      /\ t[1] \in RateNumbers /\ t[3] \in RateNumbers \ {"0"}
              THEN IsRate(fps, NumberOf(t[1]), NumberOf(t[3]))
              ELSE IsRate(fps, 0, 1)

\* the claim's cases one at a time: the well-formed rates
C30_WellFormedRates ==
    call.fn = "get_video_info" =>
       LET t == call.text
           fps == call.res
       IN  /\ Len(t) = 1 /\ t[1] \in RateNumbers => IsRate(fps, NumberOf(t[1]), 1)
           /\ /\ Len(t) = 3 /\ t[2] = Slash
              /\ t[1] \in RateNumbers /\ t[3] \in RateNumbers \ {"0"}
              => IsRate(fps, NumberOf(t[1]), NumberOf(t[3]))

\* ======================= the time range of a parsed ActivitySegment
\* _parse_video_response and _parse_frames_response on the offsets and
\* indices a model may return: negative, reversed, past the last frame.
OffsetFields == {Missing, Num(-1), Num(0), Num(1), Num(3), Num(5)}

OffsetElements ==
    [obj : {TRUE}, start : OffsetFields, end : OffsetFields,
     title : {Text("t")}, summary : {Text("s")}, category : {NoCategory}]

OffsetArrays == UNION {[1..n -> OffsetElements] : n \in 0..MaxArray}

OffsetCall ==
    /\ call = NoResult
    /\ \E data \in OffsetArrays, mode \in {"video", "frames"} :
         LET base == BaseTime(ChunkPath(1), now)
         IN  call' = [fn |-> "parse", mode |-> mode, data |-> data,
                      base |-> base, duration |-> DefaultVideoDuration,
                      res |-> ParseActivities(mode, data, base,
                                              DefaultVideoDuration,
                                              FrameTimestamps)]
    /\ UNCHANGED <<now, anaVars, recVars, cleanup, flush, sumVars>>

SpecOffsets == InitQuery /\ [][OffsetCall]_vars

\* C31: every segment of video-mode or frame-mode parsing ends no earlier
\* than it starts, whatever offsets or indices the response holds, and a
\* frame-mode segment starts and ends at frames of the batch.
C31_SegmentEndsAfterStart ==
    call.fn = "parse" =>
       \A i \in 1..Len(call.res) :
          /\ call.res[i].end_time >= call.res[i].start_time
          /\ call.mode = "frames" =>
                /\ call.res[i].start_time \in SeqToSet(FrameTimestamps)
                /\ call.res[i].end_time \in SeqToSet(FrameTimestamps)

\* the frame-mode half of the claim
C31_FrameSegmentsClamped ==
    call.fn = "parse" /\ call.mode = "frames" =>
       \A i \in 1..Len(call.res) :
          /\ call.res[i].end_time >= call.res[i].start_time
          /\ call.res[i].start_time \in SeqToSet(FrameTimestamps)
          /\ call.res[i].end_time \in SeqToSet(FrameTimestamps)

\* ================================== sessions held across a model call
\* generate_summary opens its session at line 68 and closes it in the
\* finally clause of line 163; _generate_ai_summary (line 127) calls
\* generate_content in between. A thread at "model" is about to make, or
\* is making, that call.
\* C32: no call holds an open database session while its call to the model
\* backend is in flight.
C32_NoSessionAcrossModelCall ==
    \A th \in SumThreads : sum_runs[th].pc = "model" => ~sum_runs[th].session

\* ============================ pause and resume at more than a frame a second
\* _recording_loop with fps = 2 (config.py: fps is an int, 1 by default):
\* frame_interval = 1.0 / fps is half a second. One unit of `now' is one
\* capture tick, so a sleep of s seconds lasts s * fps units. The run has
\* no capture failures and no stop().
FastConfig == [chunk_duration |-> 4, frame_interval |-> 1, fps |-> 2]

\* lines 116-118: time.sleep(1.0) while paused
PausedIterationAtRate(l) == [l EXCEPT !.wake = now + PauseSleep * cfg.fps]

\* lines 114-141, every capture giving a frame
IterationAtRate(l) ==
    IF ~is_recording THEN ExitLoop(l)
    ELSE IF is_paused THEN PausedIterationAtRate(l)
    ELSE Captured(l)

LoopIterAtRate(th) ==
    /\ loops[th].pc = "sleep"
    /\ now >= loops[th].wake
    /\ loops' = [loops EXCEPT ![th] = IterationAtRate(loops[th])]
    /\ UNCHANGED <<now, cfg, calls, is_recording, is_paused, recording_thread, ctl,
                   notified, overwrites, lastCall, lastStop, chunkRows, disk,
                   anaOnly, otherVars>>

InitFast ==
    /\ now = 0
    /\ cfg = FastConfig
    /\ RecConstructed
    /\ SumConstructed
    /\ StoreConstructed
    /\ call = NoResult
    /\ interval = 2
    /\ is_running = FALSE
    /\ next_fire = -1
    /\ dropped = 0
    /\ starts = 0
    /\ runs = [th \in Threads |-> IdleRun]
    /\ chunkRows = {}
    /\ disk = {}
    /\ corrupt = {}
    /\ activities = <<>>
    /\ finished = NoFinish

NextFast ==
    \/ RStart
    \/ RPause
    \/ RResume
    \/ \E th \in LoopIds : LoopIterAtRate(th)
    \/ \E th \in LoopIds : LoopSave(th)
    \/ TickRec

SpecFast == InitFast /\ [][NextFast]_vars

\* the loop is due to capture within one tick
DueWithinTick(l) == l.pc = "sleep" => l.wake <= now + cfg.frame_interval

\* C33: pause() and resume() take effect within one capture tick: a loop
\* that finds the recorder paused captures nothing (the one frame the claim
\* allows is the one whose test of is_paused came before pause()), and once
\* the recorder is recording and not paused the loop captures within a tick.
C33_PauseWithinOneTick ==
    [][/\ \A th \in LoopIds :
             is_paused => loops'[th].captured = loops[th].captured
       /\ (is_recording /\ ~is_paused)'
             => \A th \in LoopIds : DueWithinTick(loops[th])']_vars

\* ======================================= the time ranges of emitted chunks
\* C34: every chunk notification has end_time > start_time, and no two
\* chunks emitted over a sequence of start, pause, resume and stop calls
\* have overlapping time ranges.
C34_ChunkRangesDisjoint ==
    /\ \A i \in Chunks : notified[i].end_time > notified[i].start_time
    /\ \A i, j \in Chunks :
          i # j => \/ notified[i].end_time <= notified[j].start_time
                   \/ notified[j].end_time <= notified[i].start_time

\* the same of the chunks of one capture loop
C34_RangesDisjointWithinLoop ==
    /\ \A i \in Chunks : notified[i].end_time > notified[i].start_time
    /\ \A i, j \in Chunks :
          (i # j /\ notified[i].by = notified[j].by)
             => \/ notified[i].end_time <= notified[j].start_time
                \/ notified[j].end_time <= notified[i].start_time

\* ============================================== capture loops alive at once
\* a loop is alive from Thread.start() to the end of _recording_loop
Alive(th) == loops[th].pc \notin {"none", "done"}

\* C38: at most one capture loop is alive at any time, after any sequence
\* of start() and stop() calls.
C38_OneLoopAlive ==
    \A a, b \in LoopIds : Alive(a) /\ Alive(b) => a = b

\* ==================================== frames per chunk closed by the timer
\* _recording_loop without pause() and with every capture giving a frame,
\* for chunk lengths that are and that are not a multiple of the frame
\* interval (ScreenRecorder takes fps as a float: 0.2 is a frame per 5 s).
FrameConfigs ==
    {[chunk_duration |-> 5, frame_interval |-> 5],
     [chunk_duration |-> 6, frame_interval |-> 3],
     [chunk_duration |-> 4, frame_interval |-> 3],
     [chunk_duration |-> 2, frame_interval |-> 1]}

LoopIterCapturing(th) ==
    /\ loops[th].pc = "sleep"
    /\ now >= loops[th].wake
    /\ loops' = [loops EXCEPT ![th] = Iteration(loops[th], "frame")]
    /\ UNCHANGED <<now, cfg, calls, is_recording, is_paused, recording_thread, ctl,
                   notified, overwrites, lastCall, lastStop, chunkRows, disk,
                   anaOnly, otherVars>>

InitFrames ==
    /\ now = 0
    /\ cfg \in FrameConfigs
    /\ RecConstructed
    /\ SumConstructed
    /\ StoreConstructed
    /\ call = NoResult
    /\ interval = 2
    /\ is_running = FALSE
    /\ next_fire = -1
    /\ dropped = 0
    /\ starts = 0
    /\ runs = [th \in Threads |-> IdleRun]
    /\ chunkRows = {}
    /\ disk = {}
    /\ corrupt = {}
    /\ activities = <<>>
    /\ finished = NoFinish

NextFrames ==
    \/ RStart
    \/ RStop
    \/ RStopReturn
    \/ \E th \in LoopIds : LoopIterCapturing(th)
    \/ \E th \in LoopIds : LoopSave(th)
    \/ \E th \in LoopIds : LoopFinalSave(th)
    \/ TickRec

SpecFrames == InitFrames /\ [][NextFrames]_vars

Abs(x) == IF x < 0 THEN -x ELSE x

\* C35: without pauses or capture failures, a chunk closed by the duration
\* threshold holds n frames with |n - floor(L / frame_interval)| <= 1, for
\* every chunk length L and frame interval.
C35_FramesPerChunk ==
    \A i \in Chunks :
       ~notified[i].final =>
          Abs(Len(notified[i].frames)
                 - (cfg.chunk_duration \div cfg.frame_interval)) <= 1

\* the same where the frame interval divides the chunk length
C35_FramesPerChunkOfWholeIntervals ==
    cfg.chunk_duration % cfg.frame_interval = 0 => C35_FramesPerChunk

\* ======================================= date directories under recordings
\* The disk of this section also holds directories, as entries without a
\* file name. Each day the application is launched anew, so the recorder's
\* output_dir is get_chunks_dir of the day (main.py line 91).
DirEntry(d) == [dir |-> d, stem |-> <<>>]

DateDir(date) == <<"recordings", date>>

\* get_chunks_dir line 54: chunks_dir.mkdir(parents=True, exist_ok=True)
MakeChunksDir(d, date) ==
    d \cup {DirEntry(DateDir(date)), DirEntry(get_chunks_dir(date))}

\* date_dir.rglob("*"): every file and directory below date_dir
RGlob(d, date_dir) ==
    {p \in d : /\ p # DirEntry(date_dir)
               /\ Len(p.dir) >= Len(date_dir)
               /\ SubSeq(p.dir, 1, Len(date_dir)) = date_dir}

\* recordings_dir.iterdir(), the entries that are directories
DateDirs(d) ==
    {p.dir : p \in {q \in d : /\ q.stem = <<>>
                              /\ Len(q.dir) = 2
                              /\ q.dir[1] = "recordings"}}

\* _cleanup_empty_dirs, lines 211-219: a date directory is removed when
\* rglob("*") yields nothing; any(...) is true of every path it yields
_cleanup_empty_dirs(d) ==
    d \ {DirEntry(date_dir) : date_dir \in
            {dd \in DateDirs(d) : RGlob(d, dd) = {}}}

\* the application of the day writes a chunk
DayFlushWrite ==
    /\ flush.pc = "idle"
    /\ LET today == now \div SecondsPerDay
           file == [dir |-> get_chunks_dir(today), stem |-> ChunkFile(now).stem]
       IN  /\ file \notin disk
           /\ disk' = MakeChunksDir(disk, today) \cup {file}
           /\ flush' = [pc |-> "written", file_path |-> file,
                        start_time |-> now,
                        end_time |-> now + cfg.chunk_duration]
    /\ UNCHANGED <<now, chunkRows, cleanup, storeOnly>>

\* cleanup_old_recordings, lines 181-207: the commit, then
\* _cleanup_empty_dirs; a commit that raises skips it
CleanupCommitDirs ==
    /\ cleanup.pc = "loop"
    /\ cleanup.todo = {}
    /\ \E commitOk \in BOOLEAN :
         IF commitOk
         THEN /\ chunkRows' = chunkRows \ cleanup.deleted
              /\ disk' = _cleanup_empty_dirs(disk)
              /\ cleanup' = [cleanup EXCEPT !.pc = "idle", !.result = "ok"]
         ELSE /\ UNCHANGED <<chunkRows, disk>>
              /\ cleanup' = [cleanup EXCEPT !.pc = "idle",
                                            !.result = "raised"]
    /\ UNCHANGED <<now, flush, storeOnly>>

InitDirs ==
    /\ now = 0
    /\ cfg = [chunk_duration |-> 5, frame_interval |-> 5]
    /\ RecConstructed
    /\ SumConstructed
    /\ cleanup \in {IdleCleanup(n) : n \in RetentionDays}
    /\ flush = NoFlush
    /\ call = NoResult
    /\ interval = 2
    /\ is_running = FALSE
    /\ next_fire = -1
    /\ dropped = 0
    /\ starts = 0
    /\ runs = [th \in Threads |-> IdleRun]
    /\ chunkRows = {}
    /\ disk = {}
    /\ corrupt = {}
    /\ activities = <<>>
    /\ finished = NoFinish

NextDirs ==
    \/ DayFlushWrite
    \/ StoreFlushRecord
    \/ CleanupBegin
    \/ CleanupChunk
    \/ CleanupCommitDirs
    \/ TickStore

SpecDirs == InitDirs /\ [][NextDirs]_vars

\* the chunk files in the chunks folder of a date
ChunkFilesOf(d, date) ==
    {p \in d : p.stem # <<>> /\ p.dir = get_chunks_dir(date)}

\* C36: when a cleanup has run to its end, the directory of every date whose
\* chunks it deleted to the last is removed, and a date directory that
\* still holds a chunk file is kept.
C36_EmptyDateDirRemoved ==
    [][(cleanup.pc = "loop" /\ cleanup'.pc = "idle" /\ cleanup'.result = "ok")
          => \A date \in 0..MaxDay :
                /\ (/\ \E p \in cleanup.unlinked : p.dir = get_chunks_dir(date)
                    /\ ChunkFilesOf(disk', date) = {})
                      => DirEntry(DateDir(date)) \notin disk'
                /\ (/\ DirEntry(DateDir(date)) \in disk
                    /\ ChunkFilesOf(disk, date) # {})
                      => DirEntry(DateDir(date)) \in disk']_vars

\* the half of the claim about directories that still hold a chunk
C36_DateDirWithChunksKept ==
    \A date \in 0..MaxDay :
       ChunkFilesOf(disk, date) # {} => DirEntry(DateDir(date)) \in disk

\* =========================== the windows of successive periodic runs
\* _analysis_job takes its window from datetime.now() when the job starts
\* to run, not from the time the trigger was due. The windows the runs
\* took are kept, with the chunks each selected, in `call'.
Windows == IF call = NoResult THEN <<>> ELSE call.windows

\* _analysis_job, lines 98-106, with the window recorded
JobCollectRecorded(th) ==
    /\ th \in JobThreads
    /\ runs[th].pc = "collect"
    /\ LET chunks == get_chunks_in_range(now - interval, now)
       IN  /\ call' = [fn |-> "_analysis_job",
                       windows |-> Append(Windows,
                                     [start_time |-> now - interval,
                                      end_time |-> now,
                                      chunks |-> SeqToSet(chunks)])]
           /\ IF chunks = <<>>
              THEN /\ runs' = [runs EXCEPT ![th] = IdleRun]
                   /\ disk' = disk
                   /\ Finish(th, "periodic", "no_chunks", NoPath)
              ELSE /\ runs' = [runs EXCEPT ![th] =
                          [IdleRun EXCEPT !.pc = "merge",
                                          !.start_time = now - interval,
                                          !.end_time = now, !.chunks = chunks]]
                   /\ UNCHANGED <<disk, finished>>
    /\ UNCHANGED <<cleanup, flush, sumVars, recVars, now, interval, is_running,
                   next_fire, dropped, starts, chunkRows, corrupt, activities>>

NextWindowsOfRuns ==
    \/ Start(FALSE)
    \/ Trigger
    \/ JobCollectRecorded("sched")
    \/ JobMerge("sched")
    \/ JobAnalyze("sched")
    \/ JobProcess("sched")
    \/ JobUnlink("sched")
    \/ ChunkSaved
    \/ TickAna

SpecWindows == InitAna /\ [][NextWindowsOfRuns]_vars

\* the runs that selected chunk c
RunsSelecting(c) == {i \in 1..Len(Windows) : c \in Windows[i].chunks}

\* C37: while no trigger has been dropped, no chunk is selected by two
\* runs, and every chunk recorded since the first window began that starts
\* before the window of a later run (no run to come can select it any more)
\* was selected by one.
C37_EachChunkInOneRun ==
    dropped = 0 =>
       \A c \in chunkRows :
          /\ Cardinality(RunsSelecting(c)) <= 1
          /\ (/\ Windows # <<>>
              /\ c.start_time >= Windows[1].start_time
              /\ \E i \in 1..Len(Windows) :
                    c.start_time < Windows[i].start_time)
                => Cardinality(RunsSelecting(c)) = 1

\* the chunks that lie within the window of a run that began when due, and
\* were stored by then, are selected by it
C37_ChunksInsideWindowSelected ==
    \A i \in 1..Len(Windows) :
       \A c \in Windows[i].chunks :
          Windows[i].start_time <= c.start_time /\ c.end_time <= Windows[i].end_time


\* ========================= the notes of a date across summary generation
\* a step of thread th inside a call of generate_summary that was given no
\* notes: generate_now, the daily job, or the journal with an empty editor
StepWithoutNotes(th) ==
    /\ sum_runs[th].op = "generate_summary"
    /\ ~Truthy(sum_runs[th].user_notes)
    /\ sum_runs'[th] # sum_runs[th]

\* C39: summary generation never erases saved notes: a step of a call of
\* generate_summary that was given no new notes (generate_now gives none)
\* leaves the notes that a row of the table holds as they were.
C39_GenerationKeepsNotes ==
    [][\A th \in SumThreads : StepWithoutNotes(th) =>
          \A i \in 1..Len(daily_summaries) :
             Truthy(daily_summaries[i].user_notes) =>
                daily_summaries'[i].user_notes = daily_summaries[i].user_notes]_vars

\* what holds: a call that is not forced and was given no notes writes
\* nothing to a row it found
C39_UnforcedKeepsNotes ==
    [][\A th \in SumThreads :
          (StepWithoutNotes(th) /\ ~sum_runs[th].force_regenerate) =>
             \A i \in 1..Len(daily_summaries) :
                daily_summaries'[i] = daily_summaries[i]]_vars

\* ================================= the daily job after notes were saved
\* the daily job has run generate_summary for the date and got a row back
JobReturnedRow(date) ==
    /\ summary_mgr.llm_service
    /\ sum_runs["job"].pc = "idle"
    /\ sum_runs["job"].op = "generate_summary"
    /\ sum_runs["job"].date = date
    /\ sum_runs["job"].ret = "row"

\* C40: once the daily job has run for a date with a model at hand, the row
\* of the date has a text in ai_summary, whatever calls of save_user_notes
\* were made for the date before.
C40_DailyJobLeavesSummary ==
    \A date \in Dates :
       JobReturnedRow(date) =>
          /\ FirstSummary(date) # 0
          /\ Truthy(daily_summaries[FirstSummary(date)].ai_summary)

\* what holds: the job leaves a text when it found no row of the date
C40_JobSummarisesFreshDate ==
    \A date \in Dates :
       (JobReturnedRow(date) /\ sum_runs["job"].existing = 0) =>
          /\ FirstSummary(date) # 0
          /\ Truthy(daily_summaries[FirstSummary(date)].ai_summary)

====
